---- MODULE Spec2Model ----
(***************************************************************************)
(* Model of the BSE announcement pipeline (src/core/scraper.py,            *)
(* src/core/summarizer.py, src/core/notifier.py, src/main.py).             *)
(*                                                                         *)
(* Spec      : the orchestrator.  A poll cycle is RunStart, then one       *)
(*             LoopFetch / LoopSummarize pair per announcement (the two    *)
(*             halves of the body of the for loop of BSEScraper.run), then *)
(*             the drain of the returned notification tasks.  A cycle can  *)
(*             be cut short by an exception that escapes run, or by a      *)
(*             restart of the process.                                     *)
(* RetrySpec : the two resilient wrappers, one attempt per step.           *)
(*                                                                         *)
(* The store (core/db_handler.py) and the content extractor                *)
(* (core/processor.py) are imported by scraper.py but their sources are    *)
(* not part of src/; the store is modelled from its contract in spec.md    *)
(* section 4.3 and from the way run uses it.                               *)
(***************************************************************************)
EXTENDS Integers, Sequences, FiniteSets, TLC

\* ------------------------------------------------------------------ bounds
\* Longest announcement list of a run, largest MAX_ITEMS_TO_PROCESS, largest
\* number of attempts a resilient wrapper is called with, most pages of a
\* feed window, most rows on a page, most tasks handed to one drain,
\* most link entries of one document.
MaxLen == 2
MaxCap == 1
MaxTries == 3
MaxPages == 3
MaxRows == 2
MaxTasks == 3
MaxLinks == 2
MaxCycles == 3
MaxPolls == 2

\* Two announcement identifiers: a claim is about one identifier, or about the
\* order of two.
Ids == {1, 2}
\* An announcement whose NEWSID is missing or empty (run: `if not news_id`).
NoId == 0

\* backoff_factor of _make_api_request.
FeedBackoff == 5

\* `max_attempts=3` of _gemini_call_with_retry.
GeminiMaxAttempts == 3

\* `await asyncio.sleep(2)` between two notifications.
DrainDelay == 2

\* ------------------------------------------------------------------- state
VARIABLES
    db,                  \* the store: id -> status of its record
    saved,               \* id -> "dl": the file of its name is under
                         \*   downloads/; "local": download_pdf gave the
                         \*   path of a local file for it and no file of
                         \*   its name is under downloads/; else "none"
    filename,            \* id -> the name its item gives its file (the
                         \*   id that stands for the name)
    pc,                  \* "idle" | "loop" | "summ" | "done"
    announcements,       \* the list of the run, in feed order (NEWSIDs)
    k,                   \* number of loop iterations completed
    max_items,           \* BSEScraper.max_items
    test_mode,           \* BSEScraper.test_mode
    new_items_processed, \* local of run
    notification_tasks,  \* local of run, then its return value
    pdf_path,            \* local of run inside one iteration
    pdf_url,             \* local of run inside one iteration
    ev,                  \* what the last step did (observation only)
    log,                 \* feed positions handled by this run, in order
    attempts,            \* new-item attempts (resolve or download) of this run
    tried,               \* ids this run took the new-item branch for
    retried,             \* ids this run found at DOWNLOADED and tried to resume
    wrote,               \* ids this run wrote a summary outcome for
    sent,                \* number of tasks the drain has invoked
    owed,                \* ids with a task created and never invoked
    prev,                \* the previous completed run (observation)
    rw, rmax, rscript, rattempt, rcalls, rresult, rsleeps,
    fpc,                 \* fetch_announcements: "idle" | "page1" | "paging"
                         \*   | "returned" | "raised"
    total_records,       \* ROWCNT of page 1
    total_pages,         \* local of fetch_announcements
    requested,           \* page numbers requested, in order
    pages,               \* what each request gave, in order
    all_announcements,   \* local of fetch_announcements
    fetched,             \* the list fetch_announcements returned
    dpc,                 \* run_all_notifications_sequentially: "idle"
                         \*   | "draining" | "returned" | "raised"
    dtasks,              \* its argument: how each task will behave
    didx,                \* idx: number of tasks invoked so far
    dlog,                \* invocations and sleeps, in order
    spc,                 \* summarize: "idle" | "text" | "media" | "returned"
    content_data,        \* its argument: [type, links]
    name_given,          \* the company name it was called with
    company_name,        \* the name after the fallback
    extraction,          \* what the name extraction call gave ("none":
                         \*   it was not made)
    ai_calls,            \* backend calls made outside the wrapper
    resilient_calls,     \* calls of _gemini_call_with_retry
    route,               \* the branch summarize took
    media_url,           \* position of the media entry selected (0: none)
    sresult,             \* the dict summarize returned
    mpc,                 \* _summarize_media_from_url: "idle" | "download"
                         \*   | "upload" | "poll" | "call" | "finally"
                         \*   | "returned" | "raised"
    msrc,                \* media_url is a "remote" URL or a "file" URI
    murl,                \* media_url: position of the selected entry
    filepath,            \* local filepath: "none" | "scratch" | "source"
    scratch,             \* media URL -> its file in the media cache exists
    source_file,         \* the file of a file URI: "none" | "present"
                         \*   | "absent" | "deleted"
    media_file,          \* local media_file is set
    polls,               \* passes of the polling loop so far, counted
                         \*   modulo MaxPolls + 1 (the loop has no limit)
    artifact,            \* the upload at the backend: "none" | "stored"
                         \*   | "delete_requested"
    moutcome,            \* how the try block ended ("running" before)
    mbody,               \* the reply the wrapper returned, as parsed
    mresult,             \* the dict _summarize_media_from_url returned
    ppc,                 \* main: "top" | "run" | "drain" | "close" | "sleep"
                         \*   | "cooldown" | "stopped" | "terminated"
    cycles,              \* poll cycles started
    active,              \* poll cycles in progress
    ptasks,              \* number of tasks run returned in this cycle
    perr,                \* the last exception: where, kind, cycle
    pwaits,              \* the sleeps of main that completed, in order
    sendpc,              \* _send_message: "idle" | "sending" | "returned"
    is_enabled,          \* TelegramNotifier.is_enabled
    message,             \* its argument message
    parse_mode,          \* its argument parse_mode
    sattempt,            \* attempt of the for loop in progress
    fallbacks,           \* recursive calls with parse_mode=None
    transmissions,       \* the bot.send_message calls, in order
    sret                 \* what _send_message returned

mainVars == <<db, saved, filename, pc, announcements, k, max_items, test_mode,
              new_items_processed, notification_tasks, pdf_path, pdf_url,
              ev, log, attempts, tried, retried, wrote, sent, owed, prev>>
retryVars == <<rw, rmax, rscript, rattempt, rcalls, rresult, rsleeps>>
fetchVars == <<fpc, total_records, total_pages, requested, pages,
               all_announcements, fetched>>
drainVars == <<dpc, dtasks, didx, dlog>>
summVars == <<spc, content_data, name_given, company_name, extraction, ai_calls,
              resilient_calls, route, media_url, sresult>>
mediaVars == <<mpc, msrc, murl, filepath, scratch, source_file, media_file,
               polls, artifact, moutcome, mbody, mresult>>
pollVars == <<ppc, cycles, active, ptasks, perr, pwaits>>
sendVars == <<sendpc, is_enabled, message, parse_mode, sattempt, fallbacks,
              transmissions, sret>>
coreVars == <<mainVars, retryVars, fetchVars, drainVars, summVars>>
moreVars == <<mediaVars, pollVars, sendVars>>
notMain == <<retryVars, fetchVars, drainVars, summVars, moreVars>>
notRetry == <<mainVars, fetchVars, drainVars, summVars, moreVars>>
vars == <<mainVars, retryVars, fetchVars, drainVars, summVars, moreVars>>

Terminal == {"PROCESSED", "ERROR_PROCESSING"}
Statuses == {"ABSENT", "DOWNLOADED"} \cup Terminal
WellShaped == {"summary", "web_link", "error"}

\* ------------------------------------------------- the store (db_handler)
\* The store keeps one record per identifier; the model keeps its status
\* column ("ABSENT" when there is no record).  The summary JSON that
\* update_summary stores with the status is never read back by the pipeline.

\* A record exists for the identifier, whatever its status.
is_processed(d, id) == d[id] # "ABSENT"

\* spec.md 3: true iff status is DOWNLOADED, or the record is absent.
needs_summarization(d, id) == d[id] \in {"DOWNLOADED", "ABSENT"}

\* recordDownloaded: creates the record at DOWNLOADED; the identifier is the
\* key of the table, so an existing record is left as it is.
add_new_announcement(d, id) ==
    IF d[id] = "ABSENT" THEN [d EXCEPT ![id] = "DOWNLOADED"] ELSE d

\* recordSummaryOutcome: one update that stores the outcome and the status
\* in the record of the identifier.
update_summary(d, id, status) ==
    IF d[id] = "ABSENT" THEN d ELSE [d EXCEPT ![id] = status]

\* ------------------------------------------------ BSEScraper.run, pieces
UrlKinds == {"web", "file"}
Paths == {"none", "dl", "local"}
\* What summarize() hands back to process_and_summarize: a dict whose "type"
\* is summary, web_link or error; a dict with some other "type" ("other") or
\* with none ("notype"), which json.loads of the backend's text can produce;
\* or an exception out of process_pdf / summarize ("raise").
Outcomes == {"summary", "web_link", "error", "other", "notype", "raise"}

\* A faulty variant: the list taken in feed order.
ProcessingOrder_forward(n) == [j \in 1..n |-> j]

\* `for item in reversed(announcements)`: the feed position handled by the
\* j-th iteration of a run over n announcements.
ProcessingOrder(n) == [j \in 1..n |-> n - j + 1]

\* A faulty variant: the cap compared with > instead of >=.
CapReached_offbyone(cap, n) == cap > 0 /\ n > cap

\* `if self.max_items > 0 and new_items_processed >= self.max_items: break`
CapReached(cap, n) == cap > 0 /\ n >= cap

\* Faulty variants: every identifier treated as new; an identifier at
\* DOWNLOADED treated as new.
ItemBranch_allnew(d, id) == IF id = NoId THEN "continue" ELSE "new"
ItemBranch_redownload(d, id) ==
    IF id = NoId THEN "continue"
    ELSE IF is_processed(d, id) /\ ~needs_summarization(d, id) THEN "continue"
    ELSE "new"

\* The three-way decision at the top of the loop body: `continue` for a
\* missing NEWSID and for a record that needs no summarization, the new-item
\* branch for an identifier without a record, the resume path otherwise.
ItemBranch(d, id) ==
    IF id = NoId THEN "continue"
    ELSE IF is_processed(d, id) /\ ~needs_summarization(d, id) THEN "continue"
    ELSE IF ~is_processed(d, id) THEN "new"
    ELSE "existing"

\* How a call of download_pdf goes: the file is there or the download is
\* complete; the file is missing or the request fails; the request fails
\* while the body is streamed, after the file was opened for writing.
PdfOutcomes == {"ok", "fail", "partial"}

\* `filename = f"{scrip_code}_{safe_name}_{news_id[:8]}.pdf"`: the items of
\* two identifiers give two names, or (same ticker and company, the same
\* first 8 characters of NEWSID) one and the same.
FileNames == {[i \in Ids |-> i], [i \in Ids |-> 1]}

\* A faulty variant: the test-mode return is missing.
download_pdf_always(tm, url, o) ==
    IF url = "file" THEN (IF o = "ok" THEN "local" ELSE "none")
    ELSE (IF o = "ok" THEN "dl" ELSE "none")

\* download_pdf: None in test mode; the local path of a file:// URI that
\* exists; the path under downloads/ of a web URL whose download succeeded.
download_pdf(tm, url, o) ==
    IF tm THEN "none"
    ELSE IF url = "file" THEN (IF o = "ok" THEN "local" ELSE "none")
    ELSE (IF o = "ok" THEN "dl" ELSE "none")

\* `with open(filepath, "wb") as f`: the web branch of download_pdf creates
\* the file before the body is streamed, so a complete download and one
\* that fails while streaming both leave a file under downloads/.
download_writes(tm, url, o) ==
    ~tm /\ url = "web" /\ o \in {"ok", "partial"}

\* The files after download_pdf ran for id: a written file is the file of
\* every identifier whose item gives the same name; the path of a local
\* file is remembered where no file of that name is under downloads/.
FilesAfter(sv, fn, id, path, writes) ==
    IF writes THEN [j \in Ids |-> IF fn[j] = fn[id] THEN "dl" ELSE sv[j]]
    ELSE IF path = "local" /\ sv[id] # "dl" THEN [sv EXCEPT ![id] = "local"]
    ELSE sv

\* A faulty variant: the record is added whatever download_pdf returned.
ShouldRecord_always(path, tm, is_test) == TRUE

\* `if pdf_path: add ... elif self.test_mode or item.get("is_test"): add ...`
ShouldRecord(path, tm, is_test) == path # "none" \/ tm \/ is_test

\* The new-item branch: resolve the URL unless overridden, download, record.
NewItem(d, id, tm, override, is_test, resolved, o) ==
    LET url == IF override # "none" THEN override
               ELSE IF resolved THEN "web" ELSE "none"
        path == IF url # "none" THEN download_pdf(tm, url, o) ELSE "none"
        rec == url # "none" /\ ShouldRecord(path, tm, is_test)
    IN [url |-> url, path |-> path,
        writes |-> url # "none" /\ download_writes(tm, url, o),
        db |-> IF rec THEN add_new_announcement(d, id) ELSE d,
        resolver |-> override = "none", download |-> url # "none",
        added |-> rec]

\* `if pdf_path or (is_processed(news_id) and needs_summarization(news_id))`
ShouldSummarize(d, id, path) ==
    path # "none" \/ (is_processed(d, id) /\ needs_summarization(d, id))

\* `if not pdf_path: pdf_path = self.download_path / filename`
ResumePath(path) == IF path = "none" THEN "dl" ELSE path

\* `pdf_path.exists()`: a local file was seen by download_pdf in this same
\* iteration; the name under downloads/ exists iff a web download wrote it.
PathExists(path, id, sv) == path = "local" \/ (path = "dl" /\ sv[id] = "dl")

\* A faulty variant: a successful outcome leaves the status at DOWNLOADED.
StatusFor_stale(type) == IF type # "error" THEN "DOWNLOADED" ELSE "ERROR_PROCESSING"

\* `"PROCESSED" if summary_data.get("type") != "error" else "ERROR_PROCESSING"`
StatusFor(type) == IF type # "error" THEN "PROCESSED" ELSE "ERROR_PROCESSING"

\* The factory process_and_summarize returns: its kind, "none" for
\* `return None`, "raise" for the KeyError of summary_data["type"].
TaskKind(status, type) ==
    IF status = "PROCESSED"
    THEN (IF type = "notype" THEN "raise"
          ELSE IF type \in {"summary", "web_link"} THEN type
          ELSE "none")
    ELSE IF type = "error" THEN "error"
    ELSE "none"

process_and_summarize(d, id, tm, outcome) ==
    IF tm \/ ~needs_summarization(d, id)
    THEN [db |-> d, task |-> "none", raised |-> FALSE, called |-> FALSE,
          wrote |-> FALSE, type |-> "none"]
    ELSE IF outcome = "raise"
    THEN [db |-> d, task |-> "none", raised |-> TRUE, called |-> TRUE,
          wrote |-> FALSE, type |-> "none"]
    ELSE LET status == StatusFor(outcome)
             kind == TaskKind(status, outcome)
         IN [db |-> update_summary(d, id, status),
             task |-> IF kind = "raise" THEN "none" ELSE kind,
             raised |-> kind = "raise", called |-> TRUE, wrote |-> TRUE,
             type |-> outcome]

\* ------------------------------------------------------------ the actions
NoEv == [id |-> NoId, resolver |-> FALSE, download |-> FALSE, added |-> FALSE,
         summarized |-> FALSE, wrote |-> FALSE, task |-> FALSE,
         type |-> "none", pre |-> "ABSENT", is_test |-> FALSE]
NoRun == [ok |-> FALSE, list |-> <<>>, tasks |-> {}, wrote |-> {}]
Lists == UNION {[1..n -> Ids \cup {NoId}] : n \in 0..MaxLen}

\* The feed position and the identifier of the iteration in progress.
CurPos == ProcessingOrder(Len(announcements))[k + 1]
CurId == announcements[CurPos]
TaskIds(tasks) == {tasks[j].id : j \in DOMAIN tasks}

InitRetry ==
    /\ rw = "none" /\ rmax = 0 /\ rscript = <<>> /\ rattempt = 0
    /\ rcalls = 0 /\ rresult = "idle" /\ rsleeps = <<>>

InitFetch ==
    /\ fpc = "idle" /\ total_records = 0 /\ total_pages = 0
    /\ requested = <<>> /\ pages = <<>>
    /\ all_announcements = <<>> /\ fetched = <<>>

InitDrain ==
    /\ dpc = "idle" /\ dtasks = <<>> /\ didx = 0 /\ dlog = <<>>

NoResult == [type |-> "none", error_type |-> "none", links |-> <<>>,
             url |-> "none", company |-> "none"]
InitSumm ==
    /\ spc = "idle" /\ content_data = [type |-> "none", links |-> <<>>]
    /\ name_given = "none" /\ company_name = "none" /\ extraction = "none"
    /\ ai_calls = 0 /\ resilient_calls = 0
    /\ route = "none" /\ media_url = 0 /\ sresult = NoResult

\* No reply has been parsed.
NoBody == [object |-> FALSE, type |-> "none", company |-> "none",
           error_type |-> "none"]
InitMediaLocals ==
    /\ mpc = "idle" /\ msrc = "none" /\ murl = 0
    /\ filepath = "none"
    /\ source_file = "none"
    /\ media_file = FALSE /\ polls = 0 /\ artifact = "none"
    /\ moutcome = "running" /\ mbody = NoBody /\ mresult = NoResult
InitMedia ==
    /\ InitMediaLocals
    /\ scratch = [u \in 1..MaxLinks |-> FALSE]

NoErr == [where |-> "none", kind |-> "none", cycle |-> 0]
InitPoll ==
    /\ ppc = "top" /\ cycles = 0 /\ active = 0 /\ ptasks = 0
    /\ perr = NoErr /\ pwaits = <<>>

InitSend ==
    /\ sendpc = "idle" /\ is_enabled = FALSE /\ message = "none"
    /\ parse_mode = "none" /\ sattempt = 0 /\ fallbacks = 0
    /\ transmissions = <<>> /\ sret = "none"

\* No run is in progress: nothing of a run is left in memory.
NoRunLocals ==
    /\ announcements = <<>> /\ k = 0
    /\ max_items = 0 /\ test_mode = FALSE
    /\ new_items_processed = 0 /\ notification_tasks = <<>>
    /\ pdf_path = "none" /\ pdf_url = "none"
    /\ log = <<>>
    /\ attempts = 0 /\ tried = {} /\ retried = {} /\ wrote = {}
    /\ sent = 0

Init ==
    /\ db = [i \in Ids |-> "ABSENT"]
    /\ saved = [i \in Ids |-> "none"]
    /\ filename = [i \in Ids |-> i]
    /\ pc = "idle"
    /\ NoRunLocals
    /\ ev = NoEv
    /\ owed = {}
    /\ prev = NoRun
    /\ InitRetry
    /\ InitFetch
    /\ InitDrain
    /\ InitSumm
    /\ InitMedia
    /\ InitPoll
    /\ InitSend

\* The run or the drain is over, or was cut short: back to idle.
EndRun ==
    /\ pc' = "idle"
    /\ announcements' = <<>> /\ k' = 0
    /\ max_items' = 0 /\ test_mode' = FALSE
    /\ new_items_processed' = 0 /\ notification_tasks' = <<>>
    /\ pdf_path' = "none" /\ pdf_url' = "none"
    /\ log' = <<>>
    /\ attempts' = 0 /\ tried' = {} /\ retried' = {} /\ wrote' = {}
    /\ sent' = 0

\* The manual harness clears the record of an announcement before it asks
\* for a run over it (`DELETE FROM announcements WHERE news_id = ?`); the
\* files under downloads/ stay.
HarnessDelete ==
    /\ pc = "idle"
    /\ \E id \in Ids :
        /\ db[id] # "ABSENT"
        /\ db' = [db EXCEPT ![id] = "ABSENT"]
    /\ prev' = NoRun
    /\ ev' = NoEv
    /\ UNCHANGED <<saved, filename, pc, announcements, k, max_items, test_mode,
                   new_items_processed, notification_tasks, pdf_path, pdf_url,
                   log, attempts, tried, retried, wrote, sent, owed, notMain>>

\* A caller builds a BSEScraper (main.py: a fresh one per poll, test_mode and
\* MAX_ITEMS_TO_PROCESS from the environment) and calls run; an empty list
\* makes run return [] at once.  The items of the list give the file names;
\* they are taken as fixed from the first file on.
RunStart ==
    /\ pc = "idle"
    /\ \E list \in Lists, cap \in 0..MaxCap, tm \in BOOLEAN :
        /\ announcements' = list
        /\ max_items' = cap
        /\ test_mode' = tm
        /\ pc' = IF list = <<>> THEN "done" ELSE "loop"
        /\ prev' = IF prev.ok /\ prev.list = list THEN prev ELSE NoRun
    /\ k' = 0 /\ new_items_processed' = 0 /\ notification_tasks' = <<>>
    /\ pdf_path' = "none" /\ pdf_url' = "none"
    /\ ev' = NoEv /\ log' = <<>>
    /\ attempts' = 0 /\ tried' = {} /\ retried' = {} /\ wrote' = {}
    /\ sent' = 0
    /\ IF \A i \in Ids : saved[i] # "dl"
       THEN filename' \in FileNames
       ELSE filename' = filename
    /\ UNCHANGED <<db, saved, owed, notMain>>

\* The loop ends: the list is exhausted, or the cap makes it `break`; run
\* returns notification_tasks.
LoopExit ==
    /\ pc = "loop"
    /\ k = Len(announcements) \/ CapReached(max_items, new_items_processed)
    /\ pc' = "done"
    /\ ev' = NoEv
    /\ UNCHANGED <<db, saved, filename, announcements, k, max_items, test_mode,
                   new_items_processed, notification_tasks, pdf_path, pdf_url,
                   log, attempts, tried, retried, wrote, sent, owed,
                   prev, notMain>>

\* `continue`: no NEWSID, or a record that needs no summarization.
LoopContinue ==
    /\ pc = "loop"
    /\ k < Len(announcements)
    /\ ~CapReached(max_items, new_items_processed)
    /\ ItemBranch(db, CurId) = "continue"
    /\ k' = k + 1
    /\ log' = Append(log, CurPos)
    /\ ev' = [NoEv EXCEPT !.id = CurId]
    /\ UNCHANGED <<db, saved, filename, pc, announcements, max_items, test_mode,
                   new_items_processed, notification_tasks, pdf_path, pdf_url,
                   attempts, tried, retried, wrote, sent, owed, prev,
                   notMain>>

\* First half of the loop body: for an identifier without a record, count it,
\* resolve and download its attachment and record it; for an identifier with
\* a record, only read PDF_URL_OVERRIDE.
LoopFetch ==
    /\ pc = "loop"
    /\ k < Len(announcements)
    /\ ~CapReached(max_items, new_items_processed)
    /\ ItemBranch(db, CurId) # "continue"
    /\ \E override \in UrlKinds \cup {"none"}, is_test \in BOOLEAN,
          resolved \in BOOLEAN, o \in PdfOutcomes :
        LET id == CurId
            r == NewItem(db, id, test_mode, override, is_test, resolved, o)
        IN IF ItemBranch(db, id) = "new"
           THEN /\ new_items_processed' = new_items_processed + 1
                /\ db' = r.db
                /\ saved' = FilesAfter(saved, filename, id, r.path, r.writes)
                /\ filename' = filename
                /\ pdf_path' = r.path
                /\ pdf_url' = r.url
                /\ attempts' = IF r.resolver \/ r.download THEN attempts + 1
                               ELSE attempts
                /\ tried' = tried \cup {id}
                /\ retried' = retried
                /\ ev' = [NoEv EXCEPT !.id = id, !.resolver = r.resolver,
                                      !.download = r.download,
                                      !.added = r.added,
                                      !.pre = db[id],
                                      !.is_test = is_test]
           ELSE /\ pdf_path' = "none"
                /\ pdf_url' = override
                /\ ev' = [NoEv EXCEPT !.id = id, !.pre = db[id]]
                /\ retried' = retried \cup {id}
                /\ UNCHANGED <<new_items_processed, db, saved, filename, attempts,
                               tried>>
    /\ pc' = "summ"
    /\ UNCHANGED <<announcements, k, max_items, test_mode, notification_tasks,
                   log, wrote, sent, owed, prev, notMain>>

\* Second half of the loop body when there is nothing to summarize: neither a
\* fresh download nor a record at DOWNLOADED, or the file is not found.
LoopNoSummarize ==
    /\ pc = "summ"
    /\ ~(/\ ShouldSummarize(db, CurId, pdf_path)
         /\ PathExists(ResumePath(pdf_path), CurId, saved))
    /\ pc' = "loop"
    /\ k' = k + 1
    /\ log' = Append(log, CurPos)
    /\ ev' = [NoEv EXCEPT !.id = CurId, !.pre = db[CurId]]
    /\ pdf_path' = "none" /\ pdf_url' = "none"
    /\ UNCHANGED <<db, saved, filename, announcements, max_items, test_mode,
                   new_items_processed, notification_tasks, attempts, tried,
                   retried, wrote, sent, owed, prev, notMain>>

\* What the second half of the loop body does when the file exists: the URL
\* is resolved again if there is none, and process_and_summarize is awaited.
SummarizeEvent(id, r) ==
    [NoEv EXCEPT !.id = id, !.resolver = (pdf_url = "none"),
                 !.summarized = r.called, !.wrote = r.wrote,
                 !.task = (~r.raised /\ r.task # "none"),
                 !.type = IF r.wrote THEN r.type ELSE "none",
                 !.pre = db[id]]

LoopSummarize ==
    /\ pc = "summ"
    /\ ShouldSummarize(db, CurId, pdf_path)
    /\ PathExists(ResumePath(pdf_path), CurId, saved)
    /\ \E outcome \in Outcomes :
        LET id == CurId
            r == process_and_summarize(db, id, test_mode, outcome)
        IN /\ ~r.raised
           /\ db' = r.db
           /\ notification_tasks' =
                IF r.task = "none" THEN notification_tasks
                ELSE Append(notification_tasks,
                            [id |-> id, kind |-> r.task, pos |-> CurPos])
           /\ wrote' = IF r.wrote THEN wrote \cup {id} ELSE wrote
           /\ owed' = IF r.task = "none" THEN owed ELSE owed \cup {id}
           /\ ev' = SummarizeEvent(id, r)
    /\ pc' = "loop"
    /\ k' = k + 1
    /\ log' = Append(log, CurPos)
    /\ pdf_path' = "none" /\ pdf_url' = "none"
    /\ UNCHANGED <<saved, filename, announcements, max_items, test_mode,
                   new_items_processed, attempts, tried, retried, sent, prev,
                   notMain>>

\* The same step when an exception comes out of process_and_summarize: run
\* has no handler, so the exception escapes it and the tasks collected so
\* far are lost with its frame (main.py logs it and polls again later).
LoopRaise ==
    /\ pc = "summ"
    /\ ShouldSummarize(db, CurId, pdf_path)
    /\ PathExists(ResumePath(pdf_path), CurId, saved)
    /\ \E outcome \in Outcomes :
        LET id == CurId
            r == process_and_summarize(db, id, test_mode, outcome)
        IN /\ r.raised
           /\ db' = r.db
           /\ ev' = SummarizeEvent(id, r)
    /\ EndRun
    /\ prev' = NoRun
    /\ UNCHANGED <<saved, filename, owed, notMain>>

\* run_all_notifications_sequentially invokes the next task; whether the
\* send is accepted or not, the drain goes on.
DrainStep ==
    /\ pc = "done"
    /\ sent < Len(notification_tasks)
    /\ owed' = owed \ {notification_tasks[sent + 1].id}
    /\ sent' = sent + 1
    /\ ev' = NoEv
    /\ UNCHANGED <<db, saved, filename, pc, announcements, k, max_items, test_mode,
                   new_items_processed, notification_tasks, pdf_path, pdf_url,
                   log, attempts, tried, retried, wrote, prev, notMain>>

\* The invoked task raises (the notify_* coroutines format the message
\* outside _send_message's handlers): the drain has no handler either.
DrainRaise ==
    /\ pc = "done"
    /\ sent < Len(notification_tasks)
    /\ owed' = owed \ {notification_tasks[sent + 1].id}
    /\ ev' = NoEv
    /\ EndRun
    /\ prev' = NoRun
    /\ UNCHANGED <<db, saved, filename, notMain>>

\* The poll cycle is complete: every returned task has been invoked.
PollEnd ==
    /\ pc = "done"
    /\ sent = Len(notification_tasks)
    /\ prev' = [ok |-> TRUE, list |-> announcements,
                tasks |-> TaskIds(notification_tasks), wrote |-> wrote]
    /\ ev' = NoEv
    /\ EndRun
    /\ UNCHANGED <<db, saved, filename, owed, notMain>>

\* The process is stopped and started again: what is in memory is gone, the
\* store and the downloaded files stay.
Restart ==
    /\ pc # "idle"
    /\ prev' = NoRun
    /\ ev' = NoEv
    /\ EndRun
    /\ UNCHANGED <<db, saved, filename, owed, notMain>>

Next ==
    \/ HarnessDelete
    \/ RunStart
    \/ LoopExit
    \/ LoopContinue
    \/ LoopFetch
    \/ LoopNoSummarize
    \/ LoopSummarize
    \/ LoopRaise
    \/ DrainStep
    \/ DrainRaise
    \/ PollEnd
    \/ Restart

Spec == Init /\ [][Next]_vars

\* Repeated polls of main.py over one announcement list with a cap, outside
\* test mode, where nothing raises: the identifiers of Unfetchable never
\* resolve or download (and carry no test flag), every other identifier
\* does.  Each poll that starts runs to its end, and after it the next one
\* starts.
Unfetchable == {1}
CapNext ==
    \/ /\ RunStart
       /\ max_items' > 0 /\ ~test_mode'
       /\ prev.ok => announcements' = prev.list
    \/ LoopExit
    \/ LoopContinue
    \/ /\ LoopFetch
       /\ ev'.pre = "ABSENT" =>
            IF ev'.id \in Unfetchable
            THEN pdf_path' = "none" /\ ~ev'.added
            ELSE pdf_path' # "none"
    \/ LoopNoSummarize
    \/ LoopSummarize
    \/ DrainStep
    \/ PollEnd

CapSpec == Init /\ [][CapNext]_vars /\ WF_vars(CapNext)

\* ------------------------------------------------ the resilient wrappers
\* How one attempt of the wrapped call ends, by what happened and not by
\* who catches it: a value comes back ("ok"); the transport fails
\* ("network": connection error, timeout, server error); the body is not
\* JSON ("malformed") or is empty ("empty"); the request itself is refused
\* or wrong ("client_error": an HTTP 404 or 400 status or an invalid URL for
\* the feed, a client error of the API for the backend); the wrapped call
\* raises ValueError for a reason of its own ("value_error", a wrong
\* argument); anything else ("other", a TypeError or a KeyError).
AttemptOutcomes == {"ok", "network", "malformed", "empty", "client_error",
                    "value_error", "other"}

\* _make_api_request: `except (RequestException, json.JSONDecodeError)`.
\* Every exception of requests is a RequestException: the transport
\* failures, and HTTPError of raise_for_status and InvalidURL as well.
FeedRetryable(o) == o \in {"network", "malformed", "empty", "client_error"}

\* _gemini_call_with_retry: `except (JSONDecodeError, ValueError)`; an empty
\* body is turned into a ValueError, and a ValueError that call_fn raises
\* itself is caught with it. Everything else meets `except Exception`.
GeminiRetryable(o) == o \in {"malformed", "empty", "value_error"}

\* The jitter random.uniform(0, 1) of the summarization wrapper, in time
\* units: its two end points.
Jitter == {0, 1}

\* A faulty variant: the exponent counted from the attempt to come.
FeedAttempt_shifted(o, attempt, retries, backoff_factor) ==
    IF o = "ok" THEN [result |-> "value", sleep |-> 0, jitter |-> 0, pause |-> 0]
    ELSE IF FeedRetryable(o)
    THEN (IF attempt + 1 = retries
          THEN [result |-> "none", sleep |-> 0, jitter |-> 0, pause |-> 0]
          ELSE [result |-> "running",
                sleep |-> backoff_factor * (2 ^ (attempt + 1)),
                jitter |-> 0, pause |-> 0])
    ELSE [result |-> "raised", sleep |-> 0, jitter |-> 0, pause |-> 0]

\* One pass of the loop body of _make_api_request, attempt in 0..retries-1.
\* An exception outside the except clause leaves the function.
FeedAttempt(o, attempt, retries, backoff_factor) ==
    IF o = "ok" THEN [result |-> "value", sleep |-> 0, jitter |-> 0, pause |-> 0]
    ELSE IF FeedRetryable(o)
    THEN (IF attempt + 1 = retries
          THEN [result |-> "none", sleep |-> 0, jitter |-> 0, pause |-> 0]
          ELSE [result |-> "running",
                sleep |-> backoff_factor * (2 ^ attempt),
                jitter |-> 0, pause |-> 0])
    ELSE [result |-> "raised", sleep |-> 0, jitter |-> 0, pause |-> 0]

\* One pass of the loop body of _gemini_call_with_retry, attempt in
\* 1..max_attempts: time.sleep(1), the call, and after a retryable failure
\* that is not the last attempt time.sleep(2**attempt + jitter); `break`
\* leads to `return None`.
GeminiAttempt(o, attempt, max_attempts, jit) ==
    IF o = "ok" THEN [result |-> "value", sleep |-> 0, jitter |-> 0, pause |-> 1]
    ELSE IF GeminiRetryable(o)
    THEN (IF attempt = max_attempts
          THEN [result |-> "none", sleep |-> 0, jitter |-> 0, pause |-> 1]
          ELSE [result |-> "running", sleep |-> 2 ^ attempt,
                jitter |-> jit, pause |-> 1])
    ELSE [result |-> "none", sleep |-> 0, jitter |-> 0, pause |-> 1]

\* A wrapper is called; the script fixes how each attempt of the wrapped
\* call would end.
RetryStart ==
    /\ rresult = "idle"
    /\ \E w \in {"feed", "gemini"}, m \in 1..MaxTries :
        /\ rw' = w
        /\ rmax' = m
        /\ rscript' \in [1..m -> AttemptOutcomes]
    /\ rattempt' = 0 /\ rcalls' = 0 /\ rresult' = "running"
    /\ rsleeps' = <<>>
    /\ UNCHANGED notRetry

\* The sleeps one attempt adds to the wrapper's record: the fixed pause
\* before the call, then the backoff after it.
AttemptSleeps(r) ==
    (IF r.pause > 0
     THEN <<[kind |-> "pause", t |-> r.pause, jitter |-> 0]>> ELSE <<>>)
    \o (IF r.sleep > 0
        THEN <<[kind |-> "backoff", t |-> r.sleep, jitter |-> r.jitter]>>
        ELSE <<>>)

\* The wrapper makes its next attempt.
RetryAttempt ==
    /\ rresult = "running"
    /\ rattempt < rmax
    /\ \E jit \in Jitter :
        LET o == rscript[rattempt + 1]
            r == IF rw = "feed"
                 THEN FeedAttempt(o, rattempt, rmax, FeedBackoff)
                 ELSE GeminiAttempt(o, rattempt + 1, rmax, jit)
        IN /\ rresult' = r.result
           /\ rsleeps' = rsleeps \o AttemptSleeps(r)
    /\ rcalls' = rcalls + 1
    /\ rattempt' = rattempt + 1
    /\ UNCHANGED <<rw, rmax, rscript, notRetry>>

\* The wrapper is over: its caller has the value, None or the exception,
\* and nothing of the call is left.
RetryTaken ==
    /\ rresult \notin {"idle", "running"}
    /\ rw' = "none" /\ rmax' = 0 /\ rscript' = <<>> /\ rattempt' = 0
    /\ rcalls' = 0 /\ rresult' = "idle" /\ rsleeps' = <<>>
    /\ UNCHANGED notRetry

RetryNext == RetryStart \/ RetryAttempt \/ RetryTaken

RetrySpec == Init /\ [][RetryNext]_vars

\* ------------------------------------------- fetch_announcements (pages)
\* What one page request gives once it has gone through _make_api_request:
\* None (retries used up), an exception the wrapper lets out, or the page's
\* rows (their NEWSIDs; a page may come back without rows).
PageRows == UNION {[1..n -> Ids] : n \in 0..MaxRows}
PageOutcomes ==
    {[kind |-> "none", rows |-> <<>>], [kind |-> "raise", rows |-> <<>>]}
    \cup {[kind |-> "data", rows |-> r] : r \in PageRows}

\* A faulty variant: the last, partly filled page is not counted.
TotalPages_floor(total, per_page) == total \div per_page

\* `(total_records + records_per_page - 1) // records_per_page`
TotalPages(total, per_page) == (total + per_page - 1) \div per_page

\* A faulty variant: the rows of page 1 are returned although the feed
\* reports no records.
FirstPage_keeprows(o, total) ==
    IF o.kind = "raise" THEN [state |-> "raised", all |-> <<>>, pages |-> 0]
    ELSE IF o.kind = "none"
    THEN [state |-> "returned", all |-> <<>>, pages |-> 0]
    ELSE IF Len(o.rows) = 0
    THEN [state |-> "returned", all |-> <<>>, pages |-> 0]
    ELSE [state |-> IF total = 0 \/ TotalPages(total, Len(o.rows)) < 2
                    THEN "returned" ELSE "paging",
          all |-> o.rows, pages |-> TotalPages(total, Len(o.rows))]

\* fetch_announcements up to its loop: the request for page 1, the early
\* returns of [], the page count.
FirstPage(o, total) ==
    IF o.kind = "raise" THEN [state |-> "raised", all |-> <<>>, pages |-> 0]
    ELSE IF o.kind = "none"
    THEN [state |-> "returned", all |-> <<>>, pages |-> 0]
    ELSE IF total = 0
    THEN [state |-> "returned", all |-> <<>>, pages |-> 0]
    ELSE IF Len(o.rows) = 0
    THEN [state |-> "returned", all |-> <<>>, pages |-> 0]
    ELSE [state |-> IF TotalPages(total, Len(o.rows)) < 2
                    THEN "returned" ELSE "paging",
          all |-> o.rows, pages |-> TotalPages(total, Len(o.rows))]

\* A faulty variant: a failed page is skipped and the loop goes on.
NextPage_skip(all, page_no, last, o) ==
    IF o.kind = "raise" THEN [state |-> "raised", all |-> all]
    ELSE [state |-> IF page_no = last THEN "returned" ELSE "paging",
          all |-> all \o o.rows]

\* One iteration of the loop over pages 2..total_pages: `break` when the
\* page is None or has no rows, otherwise extend; after the loop, return.
NextPage(all, page_no, last, o) ==
    IF o.kind = "raise" THEN [state |-> "raised", all |-> all]
    ELSE IF o.kind = "none" \/ Len(o.rows) = 0
    THEN [state |-> "returned", all |-> all]
    ELSE [state |-> IF page_no = last THEN "returned" ELSE "paging",
          all |-> all \o o.rows]

\* run is called without a list and calls fetch_announcements.
FetchStart ==
    /\ pc = "idle"
    /\ pc' = "fetch"
    /\ fpc' = "page1"
    /\ total_records' \in 0..(MaxRows * MaxPages)
    /\ total_pages' = 0
    /\ requested' = <<>> /\ pages' = <<>>
    /\ all_announcements' = <<>> /\ fetched' = <<>>
    /\ UNCHANGED <<db, saved, filename, announcements, k, max_items, test_mode,
                   new_items_processed, notification_tasks, pdf_path, pdf_url,
                   ev, log, attempts, tried, retried, wrote, sent, owed, prev,
                   retryVars, drainVars, summVars,
                   moreVars>>

\* Page 1 is requested.  An exception the wrapper lets out leaves
\* fetch_announcements and run.
FetchFirst ==
    /\ pc = "fetch" /\ fpc = "page1"
    /\ \E o \in PageOutcomes :
        LET r == FirstPage(o, total_records)
        IN /\ r.pages <= MaxPages
           /\ requested' = <<1>>
           /\ pages' = <<o>>
           /\ fpc' = r.state
           /\ total_pages' = r.pages
           /\ all_announcements' = r.all
           /\ fetched' = IF r.state = "returned" THEN r.all ELSE <<>>
           /\ pc' = IF r.state = "raised" THEN "idle" ELSE pc
    /\ UNCHANGED <<db, saved, filename, announcements, k, max_items, test_mode,
                   new_items_processed, notification_tasks, pdf_path, pdf_url,
                   ev, log, attempts, tried, retried, wrote, sent, owed, prev,
                   total_records, retryVars, drainVars, summVars,
                   moreVars>>

\* The next page of 2..total_pages is requested.
FetchPage ==
    /\ pc = "fetch" /\ fpc = "paging"
    /\ \E o \in PageOutcomes :
        LET page_no == Len(requested) + 1
            r == NextPage(all_announcements, page_no, total_pages, o)
        IN /\ requested' = Append(requested, page_no)
           /\ pages' = Append(pages, o)
           /\ fpc' = r.state
           /\ all_announcements' = r.all
           /\ fetched' = IF r.state = "returned" THEN r.all ELSE <<>>
           /\ pc' = IF r.state = "raised" THEN "idle" ELSE pc
    /\ UNCHANGED <<db, saved, filename, announcements, k, max_items, test_mode,
                   new_items_processed, notification_tasks, pdf_path, pdf_url,
                   ev, log, attempts, tried, retried, wrote, sent, owed, prev,
                   total_records, total_pages, retryVars, drainVars, summVars,
                   moreVars>>

\* Back in run with the fetched list: an empty list ends the run with [],
\* otherwise the loop over the list starts.
RunFetched ==
    /\ pc = "fetch" /\ fpc = "returned"
    /\ announcements' = fetched
    /\ pc' = IF fetched = <<>> THEN "done" ELSE "loop"
    /\ k' = 0 /\ new_items_processed' = 0 /\ notification_tasks' = <<>>
    /\ UNCHANGED <<db, saved, filename, max_items, test_mode, pdf_path, pdf_url,
                   ev, log, attempts, tried, retried, wrote, sent, owed, prev,
                   fetchVars, retryVars, drainVars, summVars,
                   moreVars>>

FetchNext == FetchStart \/ FetchFirst \/ FetchPage \/ RunFetched

\* The fetch is looked at with any store and any files earlier runs may
\* have left: a record with or without its file, a file without a record,
\* a local file, two identifiers with one file name (one file is then the
\* file of both).
FetchInit ==
    /\ db \in [Ids -> Statuses]
    /\ filename \in FileNames
    /\ saved \in [Ids -> Paths]
    /\ \A i, j \in Ids :
          filename[i] = filename[j] => (saved[i] = "dl" <=> saved[j] = "dl")
    /\ pc = "idle"
    /\ NoRunLocals
    /\ ev = NoEv
    /\ owed = {}
    /\ prev = NoRun
    /\ InitRetry
    /\ InitFetch
    /\ InitDrain
    /\ InitSumm
    /\ InitMedia
    /\ InitPoll
    /\ InitSend

FetchSpec == FetchInit /\ [][FetchNext]_vars

\* ------------------------------ run_all_notifications_sequentially (drain)
\* What invoking a task does: the send is accepted, the send fails inside
\* _send_message (rejected, or timed out on every attempt: it returns
\* False), the task finds nothing to send (notify_weblink without links),
\* or the task raises (the notify_* coroutines build their message outside
\* any handler).
TaskBehaviours == {"accepted", "rejected", "timeout", "nosend", "raise"}
TaskLists == UNION {[1..n -> TaskBehaviours] : n \in 0..MaxTasks}

\* `if idx < total: await asyncio.sleep(2)`
DelayAfter(idx, total) == idx < total

\* One iteration of `for idx, task_factory in enumerate(tasks, 1)`: the task
\* is awaited, with no handler around it, then the pacing sleep.
DrainIteration(lg, idx, total, behaviour) ==
    LET invoked == Append(lg, [e |-> "task", n |-> idx])
    IN IF behaviour = "raise"
       THEN [state |-> "raised", log |-> invoked]
       ELSE [state |-> IF idx = total THEN "returned" ELSE "draining",
             log |-> IF DelayAfter(idx, total)
                     THEN Append(invoked, [e |-> "sleep", n |-> DrainDelay])
                     ELSE invoked]

\* The drain is called with a list of tasks; `if not tasks: return`.
DrainCall ==
    /\ dpc # "draining"
    /\ dtasks' \in TaskLists
    /\ dpc' = IF dtasks' = <<>> THEN "returned" ELSE "draining"
    /\ didx' = 0
    /\ dlog' = <<>>
    /\ UNCHANGED <<mainVars, retryVars, fetchVars, summVars,
                   moreVars>>

\* The next task is invoked.
DrainInvoke ==
    /\ dpc = "draining"
    /\ LET r == DrainIteration(dlog, didx + 1, Len(dtasks), dtasks[didx + 1])
       IN /\ dpc' = r.state
          /\ dlog' = r.log
    /\ didx' = didx + 1
    /\ UNCHANGED <<dtasks, mainVars, retryVars, fetchVars, summVars,
                   moreVars>>

DrainNext == DrainCall \/ DrainInvoke

DrainSpec == Init /\ [][DrainNext]_vars

\* ------------------------------------------- GeminiSummarizer.summarize
\* content_data as the PDF processor hands it over: its type ("none" when
\* the key is missing) and, for a link document, the link_type of each
\* entry in list order; an entry is identified by its position.
LinkKinds == {"web", "media", "other"}
LinkLists == UNION {[1..n -> LinkKinds] : n \in 0..MaxLinks}
Contents ==
    {[type |-> t, links |-> <<>>] : t \in {"text", "error", "none"}}
    \cup {[type |-> "link", links |-> l] : l \in LinkLists}
\* The company name summarize is called with: a real name, an empty one, or
\* the placeholder N/A that run passes when SLONGNAME is missing.
Names == {"named", "empty", "n/a"}
\* What the name extraction call gives: a name, a blank text, an exception.
ExtractOutcomes == {"name", "blank", "fail"}
\* How the try block of the media path ends: a stage raises, the wrapper
\* returns None ("exhausted": it gave up, or the reply was the JSON null),
\* a summary object comes back, or what comes back is not an object and
\* `summary_json["links"] = ...` raises.
MediaOutcomes == {"download_fail", "upload_fail", "poll_fail", "exhausted",
                  "ok", "bad_body"}
\* What json.loads made of the reply the wrapper accepted.  The reply is
\* data of the backend: the JSON null (json.loads gives None, which the
\* callers take for the wrapper having given up), another JSON value that
\* is no object (a list, a string), or an object whose fields are what the backend wrote, each on its own:
\* any type or none ("notype"), the company name given in the prompt
\* ("named"), another one or none, and any error_type or none.
ReplyTypes == {"summary", "web_link", "error", "other", "notype"}
ReplyCompanies == {"named", "other", "none"}
ReplyErrorTypes == {"none", "other", "gemini_text_error",
                    "gemini_media_error", "media_summarization_error",
                    "processing_error", "no_actionable_content"}
NonObject == [object |-> FALSE, type |-> "notype", company |-> "none",
              error_type |-> "none"]
JsonNull == [object |-> FALSE, type |-> "null", company |-> "none",
             error_type |-> "none"]
Bodies ==
    {NonObject, JsonNull} \cup [object : {TRUE}, type : ReplyTypes,
                      company : ReplyCompanies, error_type : ReplyErrorTypes]

\* The type and the company_name a returned object carries: summarize
\* sets only links and original_pdf_url.
BodyType(body) == body.type
BodyCompany(body, name) ==
    IF body.company = "named" THEN name ELSE body.company

\* The media path after the wrapper returned: None, an object, or a value
\* on which the item assignment raises TypeError inside the try block.
AfterCall(o, body) ==
    IF o = "none" \/ body = JsonNull THEN "exhausted"
    ELSE IF ~body.object THEN "bad_body"
    ELSE "ok"

\* A faulty variant: the name is extracted whatever name is supplied.
NeedsExtraction_always(name) == TRUE

\* `if not company_name or company_name.strip().lower() == "n/a"`
NeedsExtraction(name) == name \in {"empty", "n/a"}

\* _extract_company_name_from_text: `resp.text.strip() or "Unknown Company"`,
\* and "Unknown Company" on any exception.
ExtractedName(x) == IF x = "name" THEN "extracted" ELSE "Unknown Company"

\* The positions of the entries of one link_type, in list order.
Positions(links, kind) ==
    SelectSeq([i \in 1..Len(links) |-> i], LAMBDA i : links[i] = kind)

\* A faulty variant: web entries are looked at before media entries.
Route_webfirst(c) ==
    IF c.type = "text" THEN [route |-> "text", media |-> 0]
    ELSE IF c.type = "link"
    THEN (IF Positions(c.links, "web") # <<>>
          THEN [route |-> "web_link", media |-> 0]
          ELSE IF Positions(c.links, "media") # <<>>
          THEN [route |-> "media",
                media |-> Head(Positions(c.links, "media"))]
          ELSE [route |-> "no_actionable_content", media |-> 0])
    ELSE [route |-> "processing_error", media |-> 0]

\* The branch summarize takes on content_type and the links, and the media
\* entry it selects (`media_links[0]`).
Route(c) ==
    IF c.type = "text" THEN [route |-> "text", media |-> 0]
    ELSE IF c.type = "link"
    THEN (IF Positions(c.links, "media") # <<>>
          THEN [route |-> "media",
                media |-> Head(Positions(c.links, "media"))]
          ELSE IF Positions(c.links, "web") # <<>>
          THEN [route |-> "web_link", media |-> 0]
          ELSE [route |-> "no_actionable_content", media |-> 0])
    ELSE [route |-> "processing_error", media |-> 0]

create_error_json(error_type, name) ==
    [type |-> "error", error_type |-> error_type, links |-> <<>>,
     url |-> "original", company |-> name]

\* A faulty variant: every entry of the document is carried along.
WebLinkResult_all(c, name) ==
    [type |-> "web_link", error_type |-> "none",
     links |-> [i \in 1..Len(c.links) |-> i], url |-> "original",
     company |-> name]

\* The dict of the web-link branch.
WebLinkResult(c, name) ==
    [type |-> "web_link", error_type |-> "none",
     links |-> Positions(c.links, "web"), url |-> "original",
     company |-> name]

\* The text branch after the wrapper has returned: the object the wrapper
\* parsed, as it is, with links = [] and original_pdf_url set, or the error
\* dict when the wrapper returned None (it gave up, or the reply was the
\* JSON null).  (Another value that is not an object never gets here: the
\* item assignment raises.)
TextResult(r, body, name) ==
    IF r = "value" /\ body # JsonNull
    THEN [type |-> BodyType(body),
          error_type |-> body.error_type,
          links |-> <<>>,
          url |-> "original", company |-> BodyCompany(body, name)]
    ELSE create_error_json("gemini_text_error", name)

\* What _summarize_media_from_url returns: the object the wrapper parsed
\* with the media link and original_pdf_url set, or an error dict.
MediaResult(o, body, media, name) ==
    IF o = "ok"
    THEN [type |-> BodyType(body),
          error_type |-> body.error_type,
          links |-> <<media>>,
          url |-> "original", company |-> BodyCompany(body, name)]
    ELSE IF o = "exhausted"
    THEN create_error_json("gemini_media_error", name)
    ELSE create_error_json("media_summarization_error", name)

\* summarize is called: the name fallback, then the branch on the content
\* type.  The text branch calls the wrapper, the media branch goes to
\* _summarize_media_from_url, the other branches return at once (no wrapper
\* call is in progress then).
SummStart ==
    /\ spc = "idle"
    /\ \E c \in Contents, n \in Names :
        LET r == Route(c)
        IN /\ content_data' = c
           /\ name_given' = n
           /\ route' = r.route
           /\ media_url' = r.media
           /\ ai_calls' = IF NeedsExtraction(n) THEN 1 ELSE 0
           /\ \E x \in ExtractOutcomes :
                /\ extraction' = IF NeedsExtraction(n) THEN x ELSE "none"
                /\ company_name' = IF NeedsExtraction(n) THEN ExtractedName(x)
                                   ELSE n
           /\ resilient_calls' = IF r.route = "text" THEN 1 ELSE 0
           /\ spc' = IF r.route \in {"text", "media"} THEN r.route
                     ELSE "returned"
           /\ sresult' =
                IF r.route = "web_link" THEN WebLinkResult(c, company_name')
                ELSE IF r.route \in {"no_actionable_content",
                                     "processing_error"}
                THEN create_error_json(r.route, company_name')
                ELSE NoResult
           /\ IF r.route = "text"
              THEN /\ rw' = "gemini"
                   /\ rmax' = GeminiMaxAttempts
                   /\ rscript' \in [1..GeminiMaxAttempts -> AttemptOutcomes]
                   /\ rattempt' = 0 /\ rcalls' = 0
                   /\ rresult' = "running" /\ rsleeps' = <<>>
              ELSE /\ rw' = "none" /\ rmax' = 0 /\ rscript' = <<>>
                   /\ rattempt' = 0 /\ rcalls' = 0
                   /\ rresult' = "idle" /\ rsleeps' = <<>>
    /\ UNCHANGED <<mainVars, fetchVars, drainVars,
                   moreVars>>

\* The wrapper has returned to the text branch.
SummTextReturn ==
    /\ spc = "text"
    /\ rresult \in {"value", "none"}
    /\ \E body \in Bodies :
        IF rresult = "value" /\ ~body.object /\ body # JsonNull
        THEN spc' = "raised" /\ sresult' = NoResult
        ELSE /\ spc' = "returned"
             /\ sresult' = TextResult(rresult, body, company_name)
    /\ UNCHANGED <<content_data, name_given, company_name, extraction, ai_calls,
                   resilient_calls, route, media_url,
                   mainVars, retryVars, fetchVars, drainVars,
                   moreVars>>

\* The media branch: _summarize_media_from_url runs and returns, or its
\* `finally` raises.
SummMedia ==
    /\ spc = "media"
    /\ \E o \in MediaOutcomes, body \in Bodies, cleanup_raises \in BOOLEAN :
        /\ o = "ok" => body.object
        /\ o = "bad_body" => ~body.object /\ body # JsonNull
        /\ resilient_calls' = IF o \in {"ok", "exhausted", "bad_body"}
                              THEN 1 ELSE 0
        /\ spc' = IF cleanup_raises THEN "raised" ELSE "returned"
        /\ sresult' = IF cleanup_raises THEN NoResult
                      ELSE MediaResult(o, body, media_url, company_name)
    /\ UNCHANGED <<content_data, name_given, company_name, extraction, ai_calls,
                   route, media_url,
                   mainVars, retryVars, fetchVars, drainVars,
                   moreVars>>

\* The call is over: process_and_summarize has the result of its `await`
\* (or the exception), and nothing of the call is left in the summarizer.
SummTaken ==
    /\ spc \in {"returned", "raised"}
    /\ spc' = "idle" /\ content_data' = [type |-> "none", links |-> <<>>]
    /\ name_given' = "none" /\ company_name' = "none"
    /\ extraction' = "none"
    /\ ai_calls' = 0 /\ resilient_calls' = 0
    /\ route' = "none" /\ media_url' = 0 /\ sresult' = NoResult
    /\ rw' = "none" /\ rmax' = 0 /\ rscript' = <<>> /\ rattempt' = 0
    /\ rcalls' = 0 /\ rresult' = "idle" /\ rsleeps' = <<>>
    /\ UNCHANGED <<mainVars, fetchVars, drainVars, moreVars>>

SummNext ==
    \/ SummStart
    \/ RetryAttempt
    \/ SummTextReturn
    \/ SummMedia
    \/ SummTaken

SummSpec == Init /\ [][SummNext]_vars

\* ------------------------- GeminiSummarizer._summarize_media_from_url
\* The stages of the try block in the order the code runs them, the except
\* clause, and the finally clause.
Sources == {"remote", "file"}
\* What a stage can do: succeed, or raise.  The remote download can also
\* raise after the scratch file was opened for writing.
DownloadOutcomes == {"ok", "get_raise", "write_raise"}
StageOutcomes == {"ok", "raise"}
\* The state the polling loop sees, or files.get raises.
PollOutcomes == {"PROCESSING", "ACTIVE", "FAILED", "raise"}
\* _gemini_call_with_retry gives the parsed summary, or None.
CallOutcomes == {"value", "none"}

\* The download stage.  A file URI is used in place (it raises when the
\* file is missing); a remote URL is written to the media cache, over a
\* copy an earlier call may have left there (cached).
Download(src, present, cached, o) ==
    IF src = "file"
    THEN [filepath |-> "source", scratch |-> cached, ok |-> present]
    ELSE [filepath |-> "scratch", scratch |-> cached \/ o # "get_raise",
          ok |-> o = "ok"]

\* A faulty variant: the local file is unlinked whatever the URL is.
Unlinks_any(path, exists, src) == path # "none" /\ exists

\* `if filepath and filepath.exists() and not media_url.startswith("file://")`
Unlinks(path, exists, src) == path # "none" /\ exists /\ src # "file"

\* `if media_file:` before client.files.delete
DeletesRemote(handle, outcome) == handle

\* The file filepath points at exists.
FileExists ==
    IF filepath = "scratch" THEN scratch[murl]
    ELSE filepath = "source" /\ source_file = "present"

\* _summarize_media_from_url is called with a media URL.  Its locals are
\* fresh; the media cache is as the earlier calls left it.
MediaStart ==
    /\ mpc \in {"idle", "returned", "raised"}
    /\ mpc' = "download"
    /\ msrc' \in Sources
    /\ murl' \in 1..MaxLinks
    /\ source_file' \in IF msrc' = "file" THEN {"present", "absent"}
                        ELSE {"none"}
    /\ filepath' = "none"
    /\ media_file' = FALSE /\ polls' = 0 /\ artifact' = "none"
    /\ moutcome' = "running" /\ mbody' = NoBody /\ mresult' = NoResult
    /\ UNCHANGED <<scratch, coreVars, pollVars, sendVars>>

\* The media is fetched, or the stage raises into the except clause.
MediaDownload ==
    /\ mpc = "download"
    /\ \E o \in DownloadOutcomes :
        LET d == Download(msrc, source_file = "present", scratch[murl], o)
        IN /\ filepath' = d.filepath
           /\ scratch' = [scratch EXCEPT ![murl] = d.scratch]
           /\ mpc' = IF d.ok THEN "upload" ELSE "finally"
           /\ moutcome' = IF d.ok THEN "running" ELSE "download_fail"
    /\ UNCHANGED <<msrc, murl, source_file, media_file, polls, artifact,
                   mbody, mresult, coreVars, pollVars, sendVars>>

\* client.files.upload returns the handle, or raises.
MediaUpload ==
    /\ mpc = "upload"
    /\ \E o \in StageOutcomes :
        /\ media_file' = (o = "ok")
        /\ artifact' = IF o = "ok" THEN "stored" ELSE "none"
        /\ mpc' = IF o = "ok" THEN "poll" ELSE "finally"
        /\ moutcome' = IF o = "ok" THEN "running" ELSE "upload_fail"
    /\ UNCHANGED <<msrc, murl, filepath, scratch, source_file, polls,
                   mbody, mresult, coreVars, pollVars, sendVars>>

\* One test of the polling loop: while the state is PROCESSING it sleeps and
\* asks again; it ends when the state is ACTIVE, or FAILED, or files.get
\* raised.
MediaPoll ==
    /\ mpc = "poll"
    /\ \E o \in PollOutcomes :
        /\ polls' = IF o = "PROCESSING" THEN (polls + 1) % (MaxPolls + 1)
                    ELSE polls
        /\ mpc' = IF o = "PROCESSING" THEN "poll"
                  ELSE IF o = "ACTIVE" THEN "call" ELSE "finally"
        /\ moutcome' = IF o \in {"PROCESSING", "ACTIVE"} THEN "running"
                       ELSE "poll_fail"
    /\ UNCHANGED <<msrc, murl, filepath, scratch, source_file, media_file,
                   artifact, mbody, mresult,
                   coreVars, pollVars, sendVars>>

\* The summarization call through the wrapper: a summary, or None.
MediaCall ==
    /\ mpc = "call"
    /\ \E o \in CallOutcomes, body \in Bodies :
        /\ moutcome' = AfterCall(o, body)
        /\ mbody' = IF o = "value" THEN body ELSE NoBody
    /\ mpc' = "finally"
    /\ UNCHANGED <<msrc, murl, filepath, scratch, source_file, media_file,
                   polls, artifact, mresult,
                   coreVars, pollVars, sendVars>>

\* The finally clause: the local file is unlinked, then the upload is
\* deleted; either call can raise, and then the function raises.
MediaFinally ==
    /\ mpc = "finally"
    /\ \E u \in StageOutcomes, d \in StageOutcomes :
        LET unlinks == Unlinks(filepath, FileExists, msrc)
            unlinked == unlinks /\ u = "ok"
            reached == ~unlinks \/ u = "ok"
            deletes == reached /\ DeletesRemote(media_file, moutcome)
            raised == (unlinks /\ u = "raise") \/ (deletes /\ d = "raise")
        IN /\ scratch' = IF unlinked /\ filepath = "scratch"
                         THEN [scratch EXCEPT ![murl] = FALSE]
                         ELSE scratch
           /\ source_file' = IF unlinked /\ filepath = "source"
                             THEN "deleted" ELSE source_file
           /\ artifact' = IF deletes THEN "delete_requested" ELSE artifact
           /\ mpc' = IF raised THEN "raised" ELSE "returned"
           /\ mresult' = IF raised THEN NoResult
                         ELSE MediaResult(moutcome, mbody, murl, company_name)
    /\ UNCHANGED <<msrc, murl, filepath, media_file, polls, moutcome, mbody,
                   coreVars, pollVars, sendVars>>

MediaNext ==
    MediaStart \/ MediaDownload \/ MediaUpload \/ MediaPoll \/ MediaCall
    \/ MediaFinally

\* The media path is looked at with any media cache an earlier process may
\* have left: under the name of a URL there is a file (or, for a URL that
\* ends in "/", the cache directory itself), or nothing.
MediaInit ==
    /\ db = [i \in Ids |-> "ABSENT"]
    /\ saved = [i \in Ids |-> "none"]
    /\ filename = [i \in Ids |-> i]
    /\ pc = "idle"
    /\ NoRunLocals
    /\ ev = NoEv
    /\ owed = {}
    /\ prev = NoRun
    /\ InitRetry
    /\ InitFetch
    /\ InitDrain
    /\ InitSumm
    /\ InitMediaLocals
    /\ scratch \in [1..MaxLinks -> BOOLEAN]
    /\ InitPoll
    /\ InitSend

MediaSpec == MediaInit /\ [][MediaNext]_vars

\* Every external call of the media path returns or raises in bounded
\* time, so each stage that can take its step takes it.
MediaLiveSpec ==
    /\ MediaInit /\ [][MediaNext]_vars
    /\ WF_vars(MediaDownload) /\ WF_vars(MediaUpload) /\ WF_vars(MediaPoll)
    /\ WF_vars(MediaCall) /\ WF_vars(MediaFinally)

\* ------------------------------------------------------- main.py: main
\* polling_interval_seconds, and the sleep of the last except clause.
PollInterval == 60
\* What can come out of a call: an Exception, or the KeyboardInterrupt of
\* the operator.
Raised == {"Exception", "KeyboardInterrupt"}

\* A faulty variant: run_single_poll and main do not catch Exception.
Handle_fatal(where, e) ==
    IF where = "cooldown" THEN "terminated"
    ELSE IF e = "KeyboardInterrupt" THEN "stopped"
    ELSE "terminated"

\* Where control goes when e is raised.  Inside run_single_poll (the
\* constructor, run, the drain, db.close) `except Exception` logs it and the
\* coroutine returns, so main goes to its sleep; in the try block of main
\* (asyncio.run itself, the sleep) `except Exception` logs it and sleeps 60;
\* KeyboardInterrupt reaches `except KeyboardInterrupt: break`; nothing
\* catches what is raised inside the except clause of main.
Handle(where, e) ==
    IF where = "cooldown" THEN "terminated"
    ELSE IF e = "KeyboardInterrupt" THEN "stopped"
    ELSE IF where \in {"run", "drain", "close"} THEN "sleep"
    ELSE "cooldown"

\* The top of `while True`: asyncio.run(run_single_poll()) starts a cycle,
\* or fails before the coroutine runs.
PollStart ==
    /\ ppc = "top"
    /\ cycles < MaxCycles
    /\ cycles' = cycles + 1
    /\ ptasks' = 0
    /\ \/ /\ ppc' = "run"
          /\ active' = active + 1
          /\ UNCHANGED perr
       \/ \E e \in Raised :
            /\ ppc' = Handle("loop", e)
            /\ perr' = [where |-> "loop", kind |-> e, cycle |-> cycles']
            /\ UNCHANGED active
    /\ UNCHANGED <<pwaits, coreVars, mediaVars, sendVars>>

\* BSEScraper(test_mode=False) and scraper.run(): a list of tasks, or an
\* exception.
PollRun ==
    /\ ppc = "run"
    /\ \/ \E n \in 0..MaxTasks :
            /\ ptasks' = n
            /\ ppc' = IF n > 0 THEN "drain" ELSE "close"
            /\ UNCHANGED <<perr, active>>
       \/ \E e \in Raised :
            /\ ppc' = Handle("run", e)
            /\ perr' = [where |-> "run", kind |-> e, cycle |-> cycles]
            /\ active' = active - 1
            /\ UNCHANGED ptasks
    /\ UNCHANGED <<cycles, pwaits, coreVars, mediaVars, sendVars>>

\* run_all_notifications_sequentially returns, or raises.
PollDrain ==
    /\ ppc = "drain"
    /\ \/ /\ ppc' = "close"
          /\ UNCHANGED <<perr, active>>
       \/ \E e \in Raised :
            /\ ppc' = Handle("drain", e)
            /\ perr' = [where |-> "drain", kind |-> e, cycle |-> cycles]
            /\ active' = active - 1
    /\ UNCHANGED <<cycles, ptasks, pwaits, coreVars, mediaVars, sendVars>>

\* scraper.db.close() and the end of run_single_poll.
PollClose ==
    /\ ppc = "close"
    /\ active' = active - 1
    /\ \/ /\ ppc' = "sleep"
          /\ UNCHANGED perr
       \/ \E e \in Raised :
            /\ ppc' = Handle("close", e)
            /\ perr' = [where |-> "close", kind |-> e, cycle |-> cycles]
    /\ UNCHANGED <<cycles, ptasks, pwaits, coreVars, mediaVars, sendVars>>

\* time.sleep of main: it completes and the loop goes to its top, or the
\* operator interrupts it.
PollWait ==
    /\ ppc \in {"sleep", "cooldown"}
    /\ \/ /\ ppc' = "top"
          /\ pwaits' = Append(pwaits, PollInterval)
          /\ UNCHANGED perr
       \/ /\ ppc' = Handle(IF ppc = "sleep" THEN "loop" ELSE "cooldown",
                           "KeyboardInterrupt")
          /\ perr' = [where |-> ppc, kind |-> "KeyboardInterrupt",
                      cycle |-> cycles]
          /\ UNCHANGED pwaits
    /\ UNCHANGED <<cycles, active, ptasks, coreVars, mediaVars, sendVars>>

PollNext == PollStart \/ PollRun \/ PollDrain \/ PollClose \/ PollWait

PollSpec == Init /\ [][PollNext]_vars

\* ------------------------------------- TelegramNotifier._send_message
\* `for attempt in range(1, 4)`
SendAttempts == 3
Messages == {"m1", "m2"}
\* bot.send_message returns, or raises TimedOut, BadRequest, or something
\* else.
SendOutcomes == {"ok", "TimedOut", "BadRequest", "other"}

\* A faulty variant: a BadRequest falls back whatever the parse mode is.
SendStep_always(mode, attempt, o) ==
    IF o = "ok" THEN [next |-> "return", result |-> TRUE, wait |-> 0]
    ELSE IF o = "TimedOut"
    THEN [next |-> IF attempt < SendAttempts THEN "retry" ELSE "return",
          result |-> FALSE, wait |-> 2 ^ attempt]
    ELSE IF o = "BadRequest"
    THEN [next |-> "fallback", result |-> FALSE, wait |-> 0]
    ELSE [next |-> "return", result |-> FALSE, wait |-> 0]

\* One pass of the loop body: return True when the send is accepted; sleep
\* 2**attempt and go on after TimedOut (return False after the last
\* attempt); on BadRequest call _send_message again with parse_mode=None
\* when the mode is MarkdownV2, return False otherwise; return False on any
\* other exception.
SendStep(mode, attempt, o) ==
    IF o = "ok" THEN [next |-> "return", result |-> TRUE, wait |-> 0]
    ELSE IF o = "TimedOut"
    THEN [next |-> IF attempt < SendAttempts THEN "retry" ELSE "return",
          result |-> FALSE, wait |-> 2 ^ attempt]
    ELSE IF o = "BadRequest"
    THEN [next |-> IF mode = "MarkdownV2" THEN "fallback" ELSE "return",
          result |-> FALSE, wait |-> 0]
    ELSE [next |-> "return", result |-> FALSE, wait |-> 0]

\* _send_message is called by a notify_* method (parse_mode defaults to
\* MarkdownV2); a disabled notifier returns True at once.
SendStart ==
    /\ sendpc \in {"idle", "returned"}
    /\ is_enabled' \in BOOLEAN
    /\ message' \in Messages
    /\ parse_mode' = "MarkdownV2"
    /\ fallbacks' = 0
    /\ transmissions' = <<>>
    /\ IF is_enabled'
       THEN sendpc' = "sending" /\ sattempt' = 1 /\ sret' = "none"
       ELSE sendpc' = "returned" /\ sattempt' = 0 /\ sret' = "True"
    /\ UNCHANGED <<coreVars, mediaVars, pollVars>>

\* One bot.send_message call and what the loop does with its outcome.
SendAttempt ==
    /\ sendpc = "sending"
    /\ \E o \in SendOutcomes :
        LET r == SendStep(parse_mode, sattempt, o)
        IN /\ transmissions' =
                Append(transmissions,
                       [mode |-> parse_mode, text |-> message,
                        outcome |-> o, attempt |-> sattempt,
                        wait |-> r.wait])
           /\ sendpc' = IF r.next = "return" THEN "returned" ELSE "sending"
           /\ sret' = IF r.next = "return"
                      THEN (IF r.result THEN "True" ELSE "False")
                      ELSE "none"
           /\ sattempt' = IF r.next = "retry" THEN sattempt + 1
                          ELSE IF r.next = "fallback" THEN 1
                          ELSE sattempt
           /\ parse_mode' = IF r.next = "fallback" THEN "plain"
                            ELSE parse_mode
           /\ fallbacks' = IF r.next = "fallback" THEN fallbacks + 1
                           ELSE fallbacks
    /\ UNCHANGED <<is_enabled, message, coreVars, mediaVars, pollVars>>

SendNext == SendStart \/ SendAttempt

SendSpec == Init /\ [][SendNext]_vars

\* ================================================================ claims
Count(tasks, id) == Cardinality({j \in DOMAIN tasks : tasks[j].id = id})
InList(id) == \E j \in DOMAIN announcements : announcements[j] = id

\* C1. Two runs in succession on the same announcement list, against the
\* same store: no run returns two tasks for one identifier, and the second
\* run returns no task for an identifier that the first run summarized or
\* returned a task for; so an announcement the first run returned a task for
\* has exactly one task in total, not two.  (prev.ok holds during a run only
\* when the previous poll cycle completed and had the same list.)
C1_RunTwiceOneTask ==
    /\ \A id \in Ids : Count(notification_tasks, id) <= 1
    /\ prev.ok =>
         \A id \in Ids :
            /\ id \in prev.wrote \cup prev.tasks =>
                  Count(notification_tasks, id) = 0
            /\ (IF id \in prev.tasks THEN 1 ELSE 0)
                  + Count(notification_tasks, id) <= 1

\* The second of two runs on the same list has returned, and the first had
\* summarized one of its announcements and returned a task for it.
C1_Witness ==
    /\ pc = "done" /\ prev.ok /\ ~test_mode
    /\ \E id \in prev.tasks : id \in prev.wrote /\ InList(id)

\* A step of a run or of its drain (the harness clears records only
\* between runs, when nothing is in progress).
RunStep == pc # "idle" \/ pc' # "idle"

\* C2. Once the record of an identifier is at PROCESSED, no step of any run
\* calls the attachment resolver, the download or the summarizer for it,
\* touches its record, or adds a notification task for it.
C2_ProcessedIsFinal ==
    [][\A id \in Ids :
         (RunStep /\ db[id] = "PROCESSED") =>
            /\ db'[id] = "PROCESSED"
            /\ ~(/\ ev'.id = id
                 /\ \/ ev'.resolver \/ ev'.download \/ ev'.added
                    \/ ev'.summarized \/ ev'.wrote \/ ev'.task)
            /\ Count(notification_tasks', id) <= Count(notification_tasks, id)
      ]_vars

\* A run has just passed over an identifier that was already at PROCESSED,
\* listed twice in its feed.
C2_Witness ==
    /\ pc = "loop" /\ k = 2 /\ ev.id \in Ids
    /\ announcements = <<ev.id, ev.id>>
    /\ db[ev.id] = "PROCESSED" /\ ~ev.wrote /\ wrote = {}

\* C3. Exactly-once across restarts: a notification that was created for an
\* identifier and never invoked, because the run was aborted or the process
\* restarted before the drain, is dispatched by a later run.  Stated on a
\* finished poll cycle: when a run over a list that contains the identifier
\* has returned and its drain is complete, no notification of an identifier
\* at PROCESSED or ERROR_PROCESSING is still owed.
C3_ExactlyOnceAcrossRestarts ==
    (pc = "done" /\ sent = Len(notification_tasks)) =>
        \A id \in Ids :
            (InList(id) /\ db[id] \in Terminal) => id \notin owed

\* C4. Over any sequence of runs, in every step of a run or of its drain,
\* the status of an identifier only moves forward, ABSENT -> DOWNLOADED
\* -> {PROCESSED | ERROR_PROCESSING}: a record is created only for an
\* identifier that has none, a summary outcome is written only to a record
\* at DOWNLOADED, and a terminal status is never overwritten.
Forward(a, b) ==
    \/ a = b
    \/ a = "ABSENT" /\ b = "DOWNLOADED"
    \/ a = "DOWNLOADED" /\ b \in Terminal
C4_StatusMovesForward ==
    [][/\ RunStep => \A id \in Ids : Forward(db[id], db'[id])
       /\ (ev'.added /\ ev' # ev) => db[ev'.id] = "ABSENT"
       /\ (ev'.wrote /\ ev' # ev) => db[ev'.id] = "DOWNLOADED"
      ]_vars

\* An identifier has gone the whole way: a run found its record at
\* DOWNLOADED and wrote a terminal status to it.
C4_Witness ==
    /\ ev.wrote /\ ev.pre = "DOWNLOADED" /\ ev.id \in retried
    /\ db[ev.id] \in Terminal

\* C5. Resumability: an identifier that a run (not a dry run) finds at
\* DOWNLOADED after a successful download is summarized by that run and
\* brought to PROCESSED or ERROR_PROCESSING, and download_pdf is not called
\* for it again.
C5_ResumedWithoutDownload ==
    (pc = "done" /\ ~test_mode) =>
        \A id \in retried :
            saved[id] # "none" => (db[id] \in Terminal /\ id \notin tried)

\* C6. The cap never prevents recovery: in a run with max_items > 0, every
\* announcement of the list whose record is at DOWNLOADED with its file under
\* downloads/ is retried in that run.
C6_CapNeverBlocksRecovery ==
    (pc = "done" /\ ~test_mode /\ max_items > 0) =>
        \A id \in Ids :
            (InList(id) /\ db[id] = "DOWNLOADED" /\ saved[id] = "dl")
                => id \in retried \cup tried

\* C7. With max_items > 0 a run attempts resolution or download for at most
\* max_items identifiers without a record; with max_items = 0 a run that
\* returns has attempted every identifier of its list that had no record
\* (an identifier gets a record only through such an attempt, so one that
\* still has none when the run returns had none all along).
C7_CapBoundsNewItems ==
    /\ max_items > 0 => attempts <= max_items
    /\ (pc = "done" /\ max_items = 0) =>
          \A id \in Ids : (InList(id) /\ db[id] = "ABSENT") => id \in tried

\* The cap has cut a run short: max_items attempts made, announcements left.
C7_Witness ==
    /\ pc = "done" /\ max_items > 0 /\ attempts = max_items
    /\ k < Len(announcements)

\* C8. A run handles the announcements in the reverse of the feed order, and
\* the tasks it returns are in that processing order: of two tasks, the
\* earlier one belongs to the announcement later in the feed.
C8_OldestFirst ==
    /\ \A j \in DOMAIN log : log[j] = Len(announcements) - j + 1
    /\ \A i, j \in DOMAIN notification_tasks :
          i < j => notification_tasks[i].pos > notification_tasks[j].pos

\* A run has returned two tasks.
C8_Witness ==
    /\ pc = "done" /\ Len(notification_tasks) >= 2
    /\ notification_tasks[1].id # notification_tasks[2].id

\* The failures the design classifies as transient: a network failure, a
\* malformed response body, an empty response body.
Transient(o) == o \in {"network", "malformed", "empty"}

\* C9. Both wrappers invoke the wrapped call at most maxAttempts times, and a
\* call that fails transiently on attempts 1..j-1 and succeeds on attempt j
\* makes the wrapper return the success value after exactly j invocations.
C9_RetryThenSuccess ==
    /\ rcalls <= rmax
    /\ rresult # "running" =>
          \A j \in DOMAIN rscript :
              (/\ rscript[j] = "ok"
               /\ \A i \in 1..(j - 1) : Transient(rscript[i]))
                  => (rresult = "value" /\ rcalls = j)

\* C10. Neither wrapper lets a failure of the wrapped call reach its caller:
\* whatever the failure and the attempt on which it occurs, the wrapper
\* returns (the value or None) and never raises.
C10_WrapperNeverRaises ==
    rresult # "raised"

\* The backoff sleeps of the wrapper call, in order: the i-th one follows
\* failed attempt i and precedes attempt i + 1.
Backoffs == SelectSeq(rsleeps, LAMBDA e : e.kind = "backoff")
BackoffBase(w) == IF w = "feed" THEN FeedBackoff ELSE 2
JitterOf(w) == IF w = "feed" THEN {0} ELSE 0..1
NoBackoffAfterLast ==
    /\ Len(Backoffs) <= rcalls
    /\ (rmax > 0 /\ rcalls = rmax) => Len(Backoffs) <= rmax - 1
    /\ (rcalls > 0 /\ rresult # "running") => Len(Backoffs) = rcalls - 1

\* C11 as stated: the backoff delay before attempt k (k >= 2) is
\* backoffBase * 2^(k-1), with a jitter in [0,1] for summarization calls
\* only, backoffBase 5 for feed calls and 2 for summarization calls, and no
\* backoff after the last failed attempt.
C11_BackoffAsStated ==
    /\ \A i \in DOMAIN Backoffs :
          LET kk == i + 1
          IN /\ Backoffs[i].t = BackoffBase(rw) * (2 ^ (kk - 1))
             /\ Backoffs[i].jitter \in JitterOf(rw)
    /\ NoBackoffAfterLast

\* C11, amended: the backoff delay before attempt k (k >= 2), that is after
\* failed attempt k-1, is backoffBase * 2^(k-2) (5, 10, ... for feed calls;
\* 2, 4, ... for summarization calls), with a jitter in [0,1] added for
\* summarization calls only, and no backoff after the last failed attempt.
C11_BackoffDelays ==
    /\ \A i \in DOMAIN Backoffs :
          LET kk == i + 1
          IN /\ Backoffs[i].t = BackoffBase(rw) * (2 ^ (kk - 2))
             /\ Backoffs[i].jitter \in JitterOf(rw)
    /\ NoBackoffAfterLast

\* A summarization call that backed off twice, the second time with the
\* largest jitter, and then got its value.
C11_Witness ==
    /\ rw = "gemini" /\ rresult = "value" /\ rcalls = 3
    /\ Len(Backoffs) = 2 /\ Backoffs[2].jitter = 1

\* C12. A wrapper makes another invocation only after a transient failure
\* (network error, malformed or empty body); after any other failure it
\* makes no further invocation and no backoff sleep, and ends at once (the
\* feed wrapper by letting the exception out, the summarization wrapper by
\* returning None).
C12_RetryOnlyTransient ==
    \A i \in 1..rcalls :
        /\ i < rcalls => Transient(rscript[i])
        /\ (rscript[i] # "ok" /\ ~Transient(rscript[i])) =>
              /\ rcalls = i
              /\ rresult \in {"raised", "none"}
              /\ Len(Backoffs) = i - 1

\* The rows of a sequence of page results, concatenated in order.
RECURSIVE Concat(_)
Concat(ps) ==
    IF ps = <<>> THEN <<>>
    ELSE Concat(SubSeq(ps, 1, Len(ps) - 1)) \o ps[Len(ps)].rows
\* ceil(t / p) for t, p > 0, by its definition.
CeilDiv(t, p) == CHOOSE n \in 1..t : n * p >= t /\ (n - 1) * p < t
GoodPage(o) == o.kind = "data" /\ Len(o.rows) > 0

\* C13. Pagination completeness: when page 1 reports T > 0 records and has
\* P > 0 rows and every page request succeeds with rows, fetch_announcements
\* requests exactly the pages 1, 2, ..., ceil(T/P), each once and in
\* increasing order, and returns their rows concatenated in request order.
C13_PaginationComplete ==
    (/\ fpc = "returned" /\ total_records > 0
     /\ \A i \in DOMAIN pages : GoodPage(pages[i])) =>
        /\ requested =
             [i \in 1..CeilDiv(total_records, Len(pages[1].rows)) |-> i]
        /\ fetched = Concat(pages)

\* Three pages were fetched, the last one only partly filled.
C13_Witness ==
    /\ fpc = "returned" /\ total_records = 5
    /\ Len(pages) = 3 /\ \A i \in DOMAIN pages : GoodPage(pages[i])
    /\ Len(pages[1].rows) = 2 /\ Len(pages[3].rows) = 1
    /\ fetched[1] # fetched[3]

\* C14. If the request for a page p >= 2 fails after its retries are used
\* up, fetch_announcements requests no page after p and returns, without
\* raising, exactly the rows of pages 1..p-1 in order.
C14_PartialOnPageFailure ==
    \A p \in DOMAIN pages :
        (p >= 2 /\ pages[p].kind = "none") =>
            /\ Len(requested) = p
            /\ fpc = "returned"
            /\ fetched = Concat(SubSeq(pages, 1, p - 1))

\* Page 2 of 3 failed after page 1 had given rows.
C14_Witness ==
    /\ fpc = "returned" /\ total_pages = 3 /\ Len(pages) = 2
    /\ pages[2].kind = "none" /\ Len(fetched) = 2

\* C15. If page 1 reports a total record count of zero, or the page-1
\* request uses up its retries, fetch_announcements returns the empty list
\* without raising and requests no further page; the run then ends with an
\* empty task list and an unchanged store.
EmptyFeed ==
    /\ Len(pages) >= 1
    /\ \/ pages[1].kind = "none"
       \/ pages[1].kind = "data" /\ total_records = 0
C15_EmptyFeedEndsRun ==
    /\ [](EmptyFeed =>
            /\ fpc = "returned" /\ fetched = <<>> /\ requested = <<1>>
            /\ pc \in {"fetch", "done"}
            /\ pc = "done" => notification_tasks = <<>>)
    /\ [][(EmptyFeed /\ pc = "fetch") =>
            (pc' = "done" /\ notification_tasks' = <<>> /\ db' = db)]_vars

\* The feed reported no records although page 1 carried rows, the store has
\* records, and the run has ended.
C15_Witness ==
    /\ EmptyFeed /\ pc = "done" /\ total_records = 0
    /\ Len(pages[1].rows) > 0
    /\ \E i \in Ids : db[i] = "DOWNLOADED"

\* The log of a drain of total tasks of which the first n have been invoked
\* and have come back: task 1, sleep, task 2, sleep, ..., with a sleep after
\* task i only if another task follows.
RECURSIVE PacedLog(_, _)
PacedLog(n, total) ==
    IF n = 0 THEN <<>>
    ELSE PacedLog(n - 1, total)
         \o <<[e |-> "task", n |-> n]>>
         \o (IF n < total THEN <<[e |-> "sleep", n |-> 2]>> ELSE <<>>)
Sleeps(lg) == SelectSeq(lg, LAMBDA x : x.e = "sleep")

\* C16. Draining N tasks invokes each task exactly once, in enqueue order,
\* with exactly N - 1 delays of 2 time units, one between each pair of
\* consecutive dispatches and none after the last; for N = 0 nothing is
\* dispatched and there is no delay.
C16_DrainPacing ==
    dpc \in {"returned", "raised"} =>
        /\ dlog = PacedLog(Len(dtasks), Len(dtasks))
        /\ Len(Sleeps(dlog)) = IF Len(dtasks) = 0 THEN 0 ELSE Len(dtasks) - 1

\* The tasks invoked, in order.
Invoked(lg) ==
    LET ts == SelectSeq(lg, LAMBDA x : x.e = "task")
    IN [i \in DOMAIN ts |-> ts[i].n]
FailedDispatch == {"rejected", "timeout", "raise"}

\* C17. A failure while dispatching one task (the send is rejected, times
\* out on every attempt, or the task raises) does not abort the drain: every
\* task enqueued after it is still invoked, in order.
C17_DrainSurvivesFailure ==
    dpc \in {"returned", "raised"} =>
        \A i \in 1..didx :
            dtasks[i] \in FailedDispatch =>
                Invoked(dlog) = [j \in 1..Len(dtasks) |-> j]

HasKind(links, kind) == \E i \in DOMAIN links : links[i] = kind
FirstOf(links, kind) ==
    CHOOSE i \in DOMAIN links :
        links[i] = kind /\ \A j \in 1..(i - 1) : links[j] # kind
IsError(r, kind) == r.type = "error" /\ r.error_type = kind

\* C18. Routing of content that is not text: a link document with a media
\* entry goes to the media path with its first media entry, whatever web
\* entries there are and wherever they stand; with no media entry and a web
\* entry it yields a WebLink; with neither it yields the Error
\* no_actionable_content; anything that is neither text nor link yields the
\* Error processing_error.
C18_Routing ==
    (spc # "idle" /\ content_data.type # "text") =>
        LET c == content_data
        IN /\ (c.type = "link" /\ HasKind(c.links, "media")) =>
                /\ route = "media"
                /\ media_url = FirstOf(c.links, "media")
                /\ spc = "returned" =>
                      \/ sresult.links = <<media_url>>
                      \/ /\ sresult = create_error_json(sresult.error_type,
                                                        company_name)
                         /\ sresult.error_type \in
                              {"gemini_media_error",
                               "media_summarization_error"}
           /\ (/\ c.type = "link" /\ ~HasKind(c.links, "media")
               /\ HasKind(c.links, "web")) =>
                /\ route = "web_link" /\ spc = "returned"
                /\ sresult.type = "web_link"
           /\ (/\ c.type = "link" /\ ~HasKind(c.links, "media")
               /\ ~HasKind(c.links, "web")) =>
                /\ spc = "returned"
                /\ IsError(sresult, "no_actionable_content")
           /\ c.type \notin {"text", "link"} =>
                /\ spc = "returned"
                /\ IsError(sresult, "processing_error")

\* A web entry stands before the media entry, and the media path was taken
\* with the media entry.
C18_Witness ==
    /\ spc = "returned" /\ content_data.type = "link"
    /\ content_data.links = <<"web", "media">>
    /\ route = "media" /\ media_url = 2
    /\ sresult.type = "summary" /\ sresult.links = <<2>>

WebOnly ==
    /\ spc = "returned" /\ content_data.type = "link"
    /\ ~HasKind(content_data.links, "media")
    /\ HasKind(content_data.links, "web")
CarriesWebEntries ==
    /\ sresult.type = "web_link"
    /\ \A i \in DOMAIN content_data.links :
          content_data.links[i] = "web" <=>
              \E j \in DOMAIN sresult.links : sresult.links[j] = i
    /\ \A i, j \in DOMAIN sresult.links :
          i < j => sresult.links[i] < sresult.links[j]

\* C19 as stated: for a link document with no media entry and at least one
\* web entry, summarize makes no call at all to the AI backend, whatever
\* company name it is given (an empty one and the placeholder included), and
\* returns a WebLink with all web entries of the input in their order and
\* nothing else.
C19_WebLinkWithoutAICall ==
    WebOnly =>
        /\ ai_calls = 0 /\ resilient_calls = 0
        /\ CarriesWebEntries

\* C19, amended: for such a document summarize makes no summarization call,
\* and no backend call at all when a real company name is supplied; with an
\* empty or placeholder name the one name-extraction call of the fallback is
\* its only backend call.  It returns a WebLink with all web entries of the
\* input in their order and nothing else.
C19_WebLinkNoSummarizationCall ==
    WebOnly =>
        /\ resilient_calls = 0
        /\ rresult = "idle"
        /\ ai_calls = IF name_given \in {"empty", "n/a"} THEN 1 ELSE 0
        /\ CarriesWebEntries

\* A document with an entry that is no web link and one that is, for an
\* item without a company name.
C19_Witness ==
    /\ WebOnly /\ content_data.links = <<"other", "web">>
    /\ name_given = "n/a" /\ ai_calls = 1
    /\ sresult.links = <<2>>

\* C20. For a text document summarize makes exactly one resilient
\* summarization call, of at most 3 backend attempts; when the call gives a
\* value the result is a Summary with no inner link and the original URL,
\* and when it is exhausted the result is the Error gemini_text_error.
C20_TextOneResilientCall ==
    /\ spc = "text" => (resilient_calls = 1 /\ rcalls <= 3)
    /\ (spc = "returned" /\ content_data.type = "text") =>
          /\ resilient_calls = 1
          /\ rcalls \in 1..3
          /\ rresult \in {"value", "none"}
          /\ rresult = "value" =>
                /\ sresult.type = "summary" /\ sresult.links = <<>>
                /\ sresult.url = "original"
          /\ rresult = "none" => IsError(sresult, "gemini_text_error")

\* C21: in the media path a failure at any stage (download, upload, status
\* poll, summarization call) ends as an Error of kind
\* media_summarization_error, and a success ends as a Summary whose inner
\* links are exactly the one selected media URL.
C21_MediaFailureKinds ==
    mpc = "returned" =>
        IF moutcome = "ok"
        THEN mresult.type = "summary" /\ mresult.links = <<murl>>
        ELSE IsError(mresult, "media_summarization_error")

\* C22: when _summarize_media_from_url returns, after a failure at any
\* stage or after a success, the scratch copy of the remotely fetched file
\* of the call no longer exists (a copy an earlier call had left under that
\* name included) and every upload of the call has had its deletion
\* requested; the file of a local-file URI is never deleted.
C22_CleanupOnReturn ==
    /\ source_file # "deleted"
    /\ mpc = "returned" =>
          /\ msrc = "remote" => ~scratch[murl]
          /\ artifact # "stored"

\* A remote download that was uploaded and then failed at the poll has
\* returned, while the copy of another URL, left by an earlier call whose
\* cleanup raised, is still in the cache.
C22_Witness ==
    /\ mpc = "returned" /\ msrc = "remote" /\ filepath = "scratch"
    /\ moutcome = "poll_fail" /\ artifact = "delete_requested"
    /\ ~scratch[murl]
    /\ \E u \in 1..MaxLinks : u # murl /\ scratch[u]

\* C23: the status stored with an outcome is determined by the outcome:
\* PROCESSED exactly for a Summary or a WebLink, ERROR_PROCESSING exactly for
\* an Error, in the one store update that persists the outcome.
C23_StatusMatchesOutcome ==
    [][ev'.wrote =>
         /\ db'[ev'.id] = "PROCESSED" <=> ev'.type \in {"summary", "web_link"}
         /\ db'[ev'.id] = "ERROR_PROCESSING" <=> ev'.type = "error"
      ]_vars

\* C24: every outcome a run persisted has exactly one task in the list of
\* that run, of the matching kind: summary for a Summary, web_link for a
\* WebLink, error for an Error.
C24_OneTaskPerOutcome ==
    pc \in {"loop", "summ", "done"} =>
        \A id \in wrote :
            /\ Count(notification_tasks, id) = 1
            /\ \A j \in DOMAIN notification_tasks :
                 notification_tasks[j].id = id =>
                    IF db[id] = "ERROR_PROCESSING"
                    THEN notification_tasks[j].kind = "error"
                    ELSE notification_tasks[j].kind \in {"summary", "web_link"}

\* C25: an unexpected error while one announcement is handled abandons only
\* that announcement: the run goes on to the next item and keeps the tasks
\* collected so far.
C25_ErrorAbandonsOnlyItem ==
    [][(pc = "summ" /\ ev'.id # NoId) =>
         /\ pc' = "loop"
         /\ k' = k + 1
         /\ Len(notification_tasks') >= Len(notification_tasks)
      ]_vars

\* C26: once the record of an identifier is at ERROR_PROCESSING, every later
\* step of a run skips it as it skips a PROCESSED one: no resolver, no download, no
\* summarization, no change of the record, no new notification task.
C26_ErrorIsFinal ==
    [][\A id \in Ids :
         (RunStep /\ db[id] = "ERROR_PROCESSING") =>
            /\ db'[id] = "ERROR_PROCESSING"
            /\ ~(/\ ev'.id = id
                 /\ \/ ev'.resolver \/ ev'.download \/ ev'.added
                    \/ ev'.summarized \/ ev'.wrote \/ ev'.task)
            /\ Count(notification_tasks', id) <= Count(notification_tasks, id)
      ]_vars

\* A run has just passed over the one announcement of its list, whose record
\* an earlier run had brought to ERROR_PROCESSING.
C26_Witness ==
    /\ pc = "loop" /\ k = 1 /\ ev.id \in Ids
    /\ announcements = <<ev.id>>
    /\ db[ev.id] = "ERROR_PROCESSING" /\ ~ev.summarized /\ wrote = {}
    /\ notification_tasks = <<>>

\* C27: a status is written only after the outcome of its operation is
\* known: a record at DOWNLOADED is created only after download_pdf returned
\* a local path in that run, and a terminal status is written only after
\* summarize has returned.
C27_StatusAfterOutcome ==
    [][/\ ev'.added => pdf_path' # "none"
       /\ ev'.wrote => ev'.summarized
      ]_vars

\* C28: in test mode a run downloads nothing and summarizes nothing:
\* download_pdf returns no local path and saves no file, no outcome is
\* written, and the task list of the run stays empty.
C28_DryRun ==
    [][test_mode' =>
         /\ pdf_path' = "none"
         /\ saved' = saved
         /\ ~ev'.summarized /\ ~ev'.wrote
         /\ notification_tasks' = <<>>
      ]_vars

\* A test-mode run has called download_pdf for a new announcement and has
\* returned.
C28_Witness ==
    /\ test_mode /\ pc = "done" /\ k = Len(announcements)
    /\ tried # {} /\ attempts > 0
    /\ notification_tasks = <<>>

\* C29: in long-running mode an error raised during a poll cycle, in the
\* run or in the drain, never ends the process: it is caught, the fixed
\* wait follows, and then the next cycle starts; a cycle starts only when
\* no other cycle is in progress.
C29_PollSurvivesErrors ==
    /\ [](active <= 1)
    /\ [][/\ (ppc \in {"run", "drain"} /\ perr' # perr
              /\ perr'.kind = "Exception") =>
                (ppc' = "sleep" /\ active' = 0)
          /\ (ppc \in {"sleep", "cooldown"} /\ ppc' = "top") =>
                pwaits' = Append(pwaits, 60)
          /\ (ppc \in {"sleep", "cooldown"}
              /\ perr'.kind # "KeyboardInterrupt") =>
                ppc' \in {"top", ppc}
          /\ (ppc # "run" /\ ppc' = "run") => (ppc = "top" /\ active = 0)
         ]_vars

\* The second cycle is running after the first one failed in its drain and
\* the wait of 60 seconds has passed.
C29_Witness ==
    /\ ppc = "run" /\ cycles = 2 /\ active = 1
    /\ perr = [where |-> "drain", kind |-> "Exception", cycle |-> 1]
    /\ pwaits = <<60>>

\* C30: a send rejected for formatting reasons is sent again in plain mode
\* with the same text; the fallback happens at most once per message, and a
\* rejection of the plain send ends _send_message with False.
C30_PlainFallbackOnce ==
    /\ fallbacks <= 1
    /\ \A i \in DOMAIN transmissions :
        LET t == transmissions[i]
        IN /\ (t.outcome = "BadRequest" /\ t.mode = "MarkdownV2") =>
                IF i < Len(transmissions)
                THEN /\ transmissions[i + 1].mode = "plain"
                     /\ transmissions[i + 1].text = t.text
                ELSE sendpc = "sending" /\ parse_mode = "plain"
           /\ (t.outcome = "BadRequest" /\ t.mode = "plain") =>
                /\ i = Len(transmissions)
                /\ sendpc = "returned" /\ sret = "False"
           /\ t.mode = "plain" =>
                \E j \in 1..(i - 1) :
                    /\ transmissions[j].outcome = "BadRequest"
                    /\ transmissions[j].mode = "MarkdownV2"

\* A rich-text send was rejected, the plain one was rejected too, and
\* _send_message returned False.
C30_Witness ==
    /\ sendpc = "returned" /\ sret = "False" /\ fallbacks = 1
    /\ Len(transmissions) = 2
    /\ transmissions[1].outcome = "BadRequest"
    /\ transmissions[2].outcome = "BadRequest"
    /\ transmissions[2].mode = "plain"

\* C31: a summarization result that does not have the SummaryResult shape
\* (no type, or a type that is none of the known tags) is treated as
\* malformed: it never comes back as a result that is persisted, so every
\* outcome a run writes has one of the known types.
C31_MalformedNeverPersisted ==
    [][ev'.wrote => ev'.type \in WellShaped]_vars

\* C32: the path at which the resume branch of run looks for the file of an
\* announcement equals the path download_pdf returned when it succeeded for
\* that announcement, for a web URL and for a local-file URI alike.
C32_RediscoveryPath ==
    \A id \in Ids : saved[id] # "none" => ResumePath("none") = saved[id]

\* C33: processing one announcement always ends with an outcome when every
\* external call returns or fails in bounded time; in particular the media
\* polling loop makes only finitely many polls, whatever states the backend
\* reports: a media call that has started polling ends.
C33_MediaPathTerminates ==
    (mpc = "poll") ~> (mpc \in {"returned", "raised"})

\* C34: when summarize is called with an empty name or the placeholder,
\* exactly one name extraction call is made before classification, and a
\* call that fails or gives nothing makes the name Unknown Company while
\* the branch on the content is taken as usual; with a real name no
\* extraction call is made and the name is kept.
C34_NameFallback ==
    spc # "idle" =>
        /\ ai_calls = IF name_given \in {"empty", "n/a"} THEN 1 ELSE 0
        /\ name_given \in {"empty", "n/a"} <=> extraction # "none"
        /\ extraction \in {"fail", "blank"} =>
                company_name = "Unknown Company"
        /\ extraction = "none" => company_name = name_given
        /\ route = IF content_data.type = "text" THEN "text"
                   ELSE IF content_data.type # "link" THEN "processing_error"
                   ELSE IF HasKind(content_data.links, "media") THEN "media"
                   ELSE IF HasKind(content_data.links, "web") THEN "web_link"
                   ELSE "no_actionable_content"
        /\ (spc = "returned" /\ route \notin {"text", "media"}) =>
              sresult.company = company_name

\* summarize was called with the placeholder name on a text document, the
\* extraction call failed, and the summary came back under Unknown Company.
C34_Witness ==
    /\ spc = "returned" /\ name_given = "n/a" /\ extraction = "fail"
    /\ ai_calls = 1 /\ route = "text"
    /\ sresult.type = "summary" /\ sresult.company = "Unknown Company"

\* C35: the cleanup of the media path is best-effort: a cleanup step that
\* fails does not escape _summarize_media_from_url (the result decided by
\* the try block is returned), and a failed local deletion does not keep
\* the deletion of the upload from being requested.
C35_CleanupBestEffort ==
    /\ mpc # "raised"
    /\ (mpc = "returned" /\ moutcome = "ok") => mresult.type = "summary"
    /\ (mpc \in {"returned", "raised"} /\ media_file) =>
            artifact = "delete_requested"

\* C36: one _send_message makes at most 3 transport sends for one message,
\* the sends of the plain fallback included; it returns True as soon as a
\* send is accepted and False when the sends are used up.
C36_SendBudget ==
    /\ Len(transmissions) <= 3
    /\ (sendpc = "returned" /\ is_enabled) =>
        /\ transmissions # <<>>
        /\ sret = "True" <=>
                transmissions[Len(transmissions)].outcome = "ok"
    /\ \A i \in DOMAIN transmissions :
        transmissions[i].outcome = "ok" =>
            (i = Len(transmissions) /\ sendpc = "returned")

\* C37: when the resolution or the download of the attachment fails for an
\* identifier without a record, outside test mode and without the test
\* flag, the run leaves the store as it is for that identifier, makes no
\* summarization call and creates no task for it, so that it is still
\* without a record for a later run.
C37_FailedFetchLeavesNoTrace ==
    [][/\ (/\ pc = "loop" /\ pc' = "summ" /\ ev'.pre = "ABSENT"
           /\ pdf_path' = "none" /\ ~test_mode /\ ~ev'.is_test) =>
                db' = db
       /\ (/\ pc = "summ" /\ ev'.id # NoId /\ db[ev'.id] = "ABSENT") =>
                /\ db' = db
                /\ ~ev'.summarized /\ ~ev'.wrote
                /\ notification_tasks' = notification_tasks
                /\ pc' = "loop"
      ]_vars

\* A run outside test mode has tried a new identifier, could not get its
\* file, and has gone on: the identifier has no record and no task.
C37_Witness ==
    /\ pc = "loop" /\ k = 1 /\ ~test_mode /\ attempts = 1
    /\ ev.id \in tried /\ db[ev.id] = "ABSENT" /\ saved[ev.id] = "none"
    /\ notification_tasks = <<>>

\* C38: with a cap and repeated runs over one list, every announcement of
\* the list whose attachment can be resolved and downloaded gets a record
\* and a terminal status in the end, even when older announcements of the
\* list never resolve or download.
C38_ProgressUnderCap ==
    \A id \in Ids \ {1} :
        [](InList(id) => <>(db[id] \in Terminal))

====
